---- MODULE Spec2Model ----
(***************************************************************************)
(* Enhanced list view for Obsidian Bases: grouping, property resolution,   *)
(* collapse state and re-render of the view (EnhancedListBasesView).       *)
(*                                                                         *)
(* Strings are sequences of one-character strings, so that concatenation,  *)
(* prefix tests, slicing and the wikilink pattern are computed character   *)
(* by character.                                                           *)
(***************************************************************************)
EXTENDS Integers, Sequences, FiniteSets, TLC

VARIABLES
    groupedData,          \* this.data.groupedData: the host's native groups
    config,               \* this.config: primaryGroup / subGroup selections
    collapsedGroups,      \* Set<string>: collapsed top-level keys
    collapsedSubGroups,   \* Set<string>: collapsed nested keys
    dom,                  \* children of containerEl, in creation order
    loaded,               \* FALSE once onUnload has run
    call,                 \* a pending call of a pure helper (or NoCall)
    ret                   \* the value that call returned (or NoRet)

vars == <<groupedData, config, collapsedGroups, collapsedSubGroups, dom,
          loaded, call, ret>>

-----------------------------------------------------------------------------
(* Bounds of the model *)

\* number of entries the host's vault holds
NumEntries == 4

\* a click that adds a key is taken only while fewer keys than this are held
MaxCollapsed == 2

\* longest list handed to valueToGroupString
MaxItems == 2

\* longest text handed to the wikilink functions, in pieces of Pieces
MaxPieces == 5

\* most lines of a text handed to truncateToLines
MaxLines == 3

\* largest line count handed to truncateToLines on its own
MaxLineCount == 2

\* oldest modification time handed to formatRelativeDate, in years of 365 days
MaxYears == 2

\* most items of a frontmatter tags list, and most inline tags of a file
MaxTags == 2

-----------------------------------------------------------------------------
(* String literals *)

None == <<"N", "o", "n", "e">>
Root == <<"R", "o", "o", "t">>
sTrue == <<"T", "r", "u", "e">>
sFalse == <<"F", "a", "l", "s", "e">>
sNull == <<"n", "u", "l", "l">>
sUndefined == <<"u", "n", "d", "e", "f", "i", "n", "e", "d">>
sUngrouped == <<"_", "_", "u", "n", "g", "r", "o", "u", "p", "e", "d", "_", "_">>
NotePrefix == <<"n", "o", "t", "e", ".">>
FileFolder == <<"f", "i", "l", "e", ".", "f", "o", "l", "d", "e", "r">>
NoteS == NotePrefix \o <<"s">>
NoteT == NotePrefix \o <<"t">>
FormulaF == <<"f", "o", "r", "m", "u", "l", "a", ".", "f">>

\* a value that is no string: null / undefined / an unset option
Null == <<"<null>">>

startsWith(s, prefix) ==
    /\ Len(s) >= Len(prefix)
    /\ SubSeq(s, 1, Len(prefix)) = prefix

\* s.slice(n): drop the first n characters
slice(s, n) == SubSeq(s, n + 1, Len(s))

RECURSIVE join(_, _)
join(strs, sep) ==
    IF strs = <<>> THEN <<>>
    ELSE IF Len(strs) = 1 THEN strs[1]
    ELSE strs[1] \o sep \o join(Tail(strs), sep)

-----------------------------------------------------------------------------
(* stripWikilinks: str.replace(/\[\[([^\]]+?)(?:\|([^\]]+))?\]\]/g, alias ?? link) *)

\* length of the longest run of characters other than "]" that starts at i
RECURSIVE RunLen(_, _)
RunLen(s, i) ==
    IF i > Len(s) \/ s[i] = "]" THEN 0 ELSE 1 + RunLen(s, i + 1)

\* the pattern matches at i: "[[", one or more non-"]" characters, "]]"
MatchAt(s, i) ==
    /\ i + 1 <= Len(s)
    /\ s[i] = "[" /\ s[i + 1] = "["
    /\ LET n == RunLen(s, i + 2)
       IN /\ n >= 1
          /\ i + 2 + n + 1 <= Len(s)
          /\ s[i + 2 + n] = "]" /\ s[i + 2 + n + 1] = "]"

\* the text between "[[" and "]]" of the match at i
MatchBody(s, i) == SubSeq(s, i + 2, i + 1 + RunLen(s, i + 2))

\* index after the match at i (regex.lastIndex, 1-based)
MatchEnd(s, i) == i + 2 + RunLen(s, i + 2) + 2

\* The lazy first group takes the shortest non-empty prefix of the body that
\* is followed by "|" and at least one more character; otherwise the whole body.
LinkLen(body) ==
    LET cuts == {k \in 1..(Len(body) - 2) : body[k + 1] = "|"}
    IN IF cuts = {} THEN Len(body)
       ELSE CHOOSE k \in cuts : \A j \in cuts : k <= j

MatchLink(s, i) ==
    LET body == MatchBody(s, i) IN SubSeq(body, 1, LinkLen(body))

HasAlias(s, i) ==
    LET body == MatchBody(s, i) IN LinkLen(body) < Len(body)

MatchAlias(s, i) ==
    LET body == MatchBody(s, i) IN SubSeq(body, LinkLen(body) + 2, Len(body))

RECURSIVE StripFrom(_, _)
StripFrom(s, i) ==
    IF i > Len(s) THEN <<>>
    ELSE IF MatchAt(s, i)
         THEN (IF HasAlias(s, i) THEN MatchAlias(s, i) ELSE MatchLink(s, i))
              \o StripFrom(s, MatchEnd(s, i))
         ELSE <<s[i]>> \o StripFrom(s, i + 1)

stripWikilinks(str) == StripFrom(str, 1)

\* index of the first match at or after from, 0 when there is none
\* (regex.exec with the g flag and regex.lastIndex = from - 1)
NextMatch(s, from) ==
    LET starts == {i \in from..Len(s) : MatchAt(s, i)}
    IN IF starts = {} THEN 0
       ELSE CHOOSE i \in starts : \A j \in starts : i <= j

\* container.appendText(text)
TextNode(text) ==
    [cls |-> "text", text |-> text, linkPath |-> Null, match |-> Null]

\* container.createSpan({cls: "enhanced-list-link", text: displayText}) with
\* the linkPath its listeners open; match is match[0], the span it stands for
LinkSpan(displayText, linkPath, match) ==
    [cls |-> "enhanced-list-link", text |-> displayText, linkPath |-> linkPath,
     match |-> match]

\* the body of the while loop for the match at m
RenderMatch(container, text, lastIndex, m) ==
    Append(IF m > lastIndex
           THEN Append(container, TextNode(SubSeq(text, lastIndex, m - 1)))
           ELSE container,
           LinkSpan(IF HasAlias(text, m) THEN MatchAlias(text, m)
                    ELSE MatchLink(text, m),
                    MatchLink(text, m),
                    SubSeq(text, m, MatchEnd(text, m) - 1)))

\* RenderLoop without the text after the last match
RECURSIVE RenderLoopNoTail(_, _, _)
RenderLoopNoTail(container, text, lastIndex) ==
    LET m == NextMatch(text, lastIndex)
    IN IF m = 0 THEN container
       ELSE RenderLoopNoTail(RenderMatch(container, text, lastIndex, m), text,
                             MatchEnd(text, m))

renderTextWithLinksNoTail(text) == RenderLoopNoTail(<<>>, text, 1)

\* while ((match = regex.exec(text)) !== null) { ... } and the remaining text;
\* lastIndex is 1-based
RECURSIVE RenderLoop(_, _, _)
RenderLoop(container, text, lastIndex) ==
    LET m == NextMatch(text, lastIndex)
    IN IF m = 0
       THEN (IF lastIndex <= Len(text)
             THEN Append(container, TextNode(SubSeq(text, lastIndex, Len(text))))
             ELSE container)
       ELSE RenderLoop(RenderMatch(container, text, lastIndex, m), text,
                       MatchEnd(text, m))

\* the child nodes renderTextWithLinks appends to an empty container
renderTextWithLinks(text) == RenderLoop(<<>>, text, 1)

-----------------------------------------------------------------------------
(* Values: what entry.getValue returns and what the frontmatter holds *)

Throws == [t |-> "throws"]                      \* the accessor throws
VNull == [t |-> "null"]                        \* null
VUndefined == [t |-> "undefined"]
VObject(str) == [t |-> "object", v |-> str]    \* a Bases Value; v = toString()
VString(str) == [t |-> "string", v |-> str]
VNumber(n) == [t |-> "number", v |-> n]
VBoolean(b) == [t |-> "boolean", v |-> b]
VArray(items) == [t |-> "array", v |-> items]

Digit(d) == <<"0", "1", "2", "3", "4", "5", "6", "7", "8", "9">>[d + 1]

RECURSIVE NatToString(_)
NatToString(n) ==
    IF n < 10 THEN <<Digit(n)>> ELSE NatToString(n \div 10) \o <<Digit(n % 10)>>

\* String(value) / value.toString() of JavaScript
RECURSIVE JSString(_)
JSString(value) ==
    CASE value.t = "null" -> sNull
      [] value.t = "undefined" -> sUndefined
      [] value.t = "object" -> value.v
      [] value.t = "string" -> value.v
      [] value.t = "number" ->
            IF value.v < 0 THEN <<"-">> \o NatToString(-value.v)
            ELSE NatToString(value.v)
      [] value.t = "boolean" ->
            IF value.v THEN <<"t", "r", "u", "e">> ELSE <<"f", "a", "l", "s", "e">>
      [] value.t = "array" ->
            \* Array.prototype.toString: elements joined by ",", null and
            \* undefined elements as the empty string
            join([k \in 1..Len(value.v) |->
                    IF value.v[k].t \in {"null", "undefined"} THEN <<>>
                    ELSE JSString(value.v[k])], <<",">>)

\* if (value): JavaScript truthiness
Truthy(value) ==
    CASE value.t \in {"null", "undefined"} -> FALSE
      [] value.t = "string" -> value.v # <<>>
      [] value.t = "number" -> value.v # 0
      [] value.t = "boolean" -> value.v
      [] OTHER -> TRUE

\* valueToGroupString whose string branch returns the stripped string as it
\* is, without the "None" sentinel for the empty one
valueToGroupStringNoSentinel(value) ==
    IF value.t \in {"null", "undefined"} THEN None
    ELSE IF value.t \in {"object", "array"}
         THEN LET str == JSString(value)
              IN IF str = <<>> \/ str = sNull \/ str = sUndefined THEN None
                 ELSE stripWikilinks(str)
    ELSE IF value.t = "string" THEN stripWikilinks(value.v)
    ELSE IF value.t = "number" THEN JSString(value)
    ELSE IF value.t = "boolean" THEN (IF value.v THEN sTrue ELSE sFalse)
    ELSE JSString(value)

RECURSIVE valueToGroupString(_)
valueToGroupString(value) ==
    IF value.t \in {"null", "undefined"} THEN None
    ELSE IF value.t \in {"object", "array"}
         \* typeof value === "object" with a toString function: Bases values
         \* and, being objects too, arrays
         THEN LET str == JSString(value)
              IN IF str = <<>> \/ str = sNull \/ str = sUndefined THEN None
                 ELSE stripWikilinks(str)
    ELSE IF value.t = "string"
         THEN LET s == stripWikilinks(value.v) IN IF s = <<>> THEN None ELSE s
    ELSE IF value.t = "number" THEN JSString(value)
    ELSE IF value.t = "boolean" THEN (IF value.v THEN sTrue ELSE sFalse)
    ELSE JSString(value)

-----------------------------------------------------------------------------
(* Preview text *)

Newline == "\n"
Return == "\r"
Space == " "

\* the characters String.prototype.trim removes, as far as texts here hold them
Whitespace == {Space, Newline, Return, "\t"}

\* index of the first character at or after i that is not whitespace
RECURSIVE SkipForward(_, _)
SkipForward(str, i) ==
    IF i > Len(str) \/ str[i] \notin Whitespace THEN i
    ELSE SkipForward(str, i + 1)

\* index of the last character at or before i that is not whitespace
RECURSIVE SkipBackward(_, _)
SkipBackward(str, i) ==
    IF i < 1 \/ str[i] \notin Whitespace THEN i
    ELSE SkipBackward(str, i - 1)

\* str.trim()
trim(str) == SubSeq(str, SkipForward(str, 1), SkipBackward(str, Len(str)))

\* least element of a non-empty set of indices
Least(S) == CHOOSE i \in S : \A j \in S : i <= j

\* index of the first ">" after i, 0 when there is none
TagEnd(s, i) ==
    LET ends == {j \in (i + 1)..Len(s) : s[j] = ">"}
    IN IF ends = {} THEN 0 ELSE Least(ends)

\* text.replace(/<[^>]*>/g, "") from index i on: the text up to the next
\* "<" that has a ">" after it, then the text after that ">"
RECURSIVE StripTagsFrom(_, _)
StripTagsFrom(s, i) ==
    LET opens == {j \in i..Len(s) : s[j] = "<" /\ TagEnd(s, j) # 0}
    IN IF opens = {} THEN SubSeq(s, i, Len(s))
       ELSE SubSeq(s, i, Least(opens) - 1)
            \o StripTagsFrom(s, TagEnd(s, Least(opens)) + 1)

\* str.split(/\r?\n/) from index start on: the line up to the next newline
\* (without a return just before it), then the lines after it
RECURSIVE SplitFrom(_, _)
SplitFrom(s, start) ==
    LET breaks == {j \in start..Len(s) : s[j] = Newline}
        nl == Least(breaks)
    IN IF breaks = {} THEN <<SubSeq(s, start, Len(s))>>
       ELSE <<SubSeq(s, start, IF nl > start /\ s[nl - 1] = Return
                               THEN nl - 2 ELSE nl - 1)>>
            \o SplitFrom(s, nl + 1)

\* lines.filter((l) => l.trim())
FilterNonBlank(lines) == SelectSeq(lines, LAMBDA l : trim(l) # <<>>)

\* characters per line of preview
CharsPerLine == 80

Ellipsis == <<".", ".", ".">>

\* array.slice(0, end)
sliceTo(array, end) ==
    SubSeq(array, 1, IF end < 0
                     THEN (IF Len(array) + end < 0 THEN 0 ELSE Len(array) + end)
                     ELSE (IF end > Len(array) THEN Len(array) ELSE end))

\* truncateToLines with the cut one character late
truncateToLinesCutLate(text, lines) ==
    LET stripped == trim(StripTagsFrom(text, 1))
        allLines == FilterNonBlank(SplitFrom(stripped, 1))
        truncated == join(sliceTo(allLines, lines), <<Space>>)
        maxChars == lines * CharsPerLine
    IN IF Len(truncated) > maxChars + 1
       THEN trim(SubSeq(truncated, 1, maxChars + 1)) \o Ellipsis
       ELSE truncated

truncateToLines(text, lines) ==
    LET stripped == trim(StripTagsFrom(text, 1))
        allLines == FilterNonBlank(SplitFrom(stripped, 1))
        truncated == join(sliceTo(allLines, lines), <<Space>>)
        maxChars == lines * CharsPerLine
    IN IF Len(truncated) > maxChars
       THEN trim(SubSeq(truncated, 1, maxChars)) \o Ellipsis
       ELSE truncated

-----------------------------------------------------------------------------
(* Relative dates.  A time in milliseconds is held as whole seconds s and *)
(* the milliseconds ms in 0..999 beyond them: s * 1000 + ms.               *)

sJustNow == <<"J", "u", "s", "t", " ", "n", "o", "w">>
sYesterday == <<"Y", "e", "s", "t", "e", "r", "d", "a", "y">>
sAgo == <<" ", "a", "g", "o">>

\* `${count}${unit} ago`
Ago(count, unit) == JSString(VNumber(count)) \o unit \o sAgo

\* formatRelativeDate with a week beginning only after the seventh day
formatRelativeDateLateWeek(timestamp, now) ==
    LET seconds == (now.s - timestamp.s) + ((now.ms - timestamp.ms) \div 1000)
        minutes == seconds \div 60
        hours == minutes \div 60
        days == hours \div 24
    IN IF days = 0
       THEN (IF hours = 0
             THEN (IF minutes = 0 THEN sJustNow ELSE Ago(minutes, <<"m">>))
             ELSE Ago(hours, <<"h">>))
       ELSE IF days = 1 THEN sYesterday
       ELSE IF days <= 7 THEN Ago(days, <<"d">>)
       ELSE IF days < 30 THEN Ago(days \div 7, <<"w">>)
       ELSE IF days < 365 THEN Ago(days \div 30, <<"m", "o">>)
       ELSE Ago(days \div 365, <<"y">>)

\* formatRelativeDate without the "Yesterday" bucket
formatRelativeDateNoYesterday(timestamp, now) ==
    LET seconds == (now.s - timestamp.s) + ((now.ms - timestamp.ms) \div 1000)
        minutes == seconds \div 60
        hours == minutes \div 60
        days == hours \div 24
    IN IF days = 0
       THEN (IF hours = 0
             THEN (IF minutes = 0 THEN sJustNow ELSE Ago(minutes, <<"m">>))
             ELSE Ago(hours, <<"h">>))
       ELSE IF days < 7 THEN Ago(days, <<"d">>)
       ELSE IF days < 30 THEN Ago(days \div 7, <<"w">>)
       ELSE IF days < 365 THEN Ago(days \div 30, <<"m", "o">>)
       ELSE Ago(days \div 365, <<"y">>)

\* now stands for Date.now(); diff = now - timestamp is
\* (now.s - timestamp.s) * 1000 + (now.ms - timestamp.ms), so that
\* Math.floor(diff / 1000) is now.s - timestamp.s, less one on a borrow
formatRelativeDate(timestamp, now) ==
    LET seconds == (now.s - timestamp.s) + ((now.ms - timestamp.ms) \div 1000)
        minutes == seconds \div 60
        hours == minutes \div 60
        days == hours \div 24
    IN IF days = 0
       THEN (IF hours = 0
             THEN (IF minutes = 0 THEN sJustNow ELSE Ago(minutes, <<"m">>))
             ELSE Ago(hours, <<"h">>))
       ELSE IF days = 1 THEN sYesterday
       ELSE IF days < 7 THEN Ago(days, <<"d">>)
       ELSE IF days < 30 THEN Ago(days \div 7, <<"w">>)
       ELSE IF days < 365 THEN Ago(days \div 30, <<"m", "o">>)
       ELSE Ago(days \div 365, <<"y">>)

-----------------------------------------------------------------------------
(* The host's vault: the entries and what their accessors return.  Entry i *)
(* is of kind ((i - 1) % 4) + 1.                                            *)

sA == <<"a">>
sB == <<"b">>
sX == <<"x">>
sD == <<"d">>
sAA == <<"a", ":", "a">>
sLinkA == <<"[", "[", "a", "]", "]">>
sLinkB == <<"[", "[", "b", "]", "]">>

PropertyIds == {NoteS, NoteT, FileFolder, FormulaF}

EntryPaths == 1..NumEntries

EntryKind(path) == ((path - 1) % 4) + 1

\* entry.getValue(propertyId) per kind
KindValues(kind, propertyId) ==
    CASE propertyId = NoteS ->
            <<VObject(sB), VObject(sA), Throws, VObject(sAA)>>[kind]
      [] propertyId = NoteT ->
            <<VObject(sX), VObject(sAA), VNull, VObject(sA)>>[kind]
      [] propertyId = FileFolder ->
            <<VObject(sD), Throws, Throws, VNull>>[kind]
      [] propertyId = FormulaF ->
            <<VNumber(7), VObject(sNull), Throws, VBoolean(TRUE)>>[kind]
      [] OTHER -> Throws

\* metadataCache.getFileCache(entry.file).frontmatter per kind
KindFrontmatter(kind) ==
    <<(<<"s">> :> VString(sB)),
      (<<"s">> :> VString(sA)) @@ (<<"t">> :> VString(sAA)),
      (<<"s">> :> VString(sLinkB)),
      <<>>
    >>[kind]

\* entry.file.parent?.name per kind
KindParentName(kind) == <<sD, sD, Null, <<>> >>[kind]

Entry(path) ==
    [path |-> path,
     kind |-> EntryKind(path),
     values |-> [propertyId \in PropertyIds |->
                    KindValues(EntryKind(path), propertyId)],
     frontmatter |-> KindFrontmatter(EntryKind(path)),
     parentName |-> KindParentName(EntryKind(path))]

\* entry.getValue(propertyId): the value, or Throws when the accessor throws
getValue(entry, propertyId) ==
    IF propertyId \in DOMAIN entry.values THEN entry.values[propertyId]
    ELSE Throws

-----------------------------------------------------------------------------
(* Property resolution and grouping *)

getPropertyValueAsString(entry, propertyId) ==
    LET value == getValue(entry, propertyId)
        propName == slice(propertyId, 5)
    IN IF value.t # "throws" /\ Truthy(value)
         THEN valueToGroupString(value)
       ELSE IF /\ startsWith(propertyId, NotePrefix)
               /\ propName \in DOMAIN entry.frontmatter
         THEN valueToGroupString(entry.frontmatter[propName])
       ELSE IF propertyId = FileFolder
         THEN (IF entry.parentName \in {Null, <<>>} THEN Root
               ELSE entry.parentName)
       ELSE None

\* the subtitle text, Null for the null result
getSubtitleText(entry, subtitleProperty) ==
    LET value == getValue(entry, subtitleProperty)
        valueStr == JSString(value)
        propName == slice(subtitleProperty, 5)
    IN IF subtitleProperty = FileFolder
         THEN (IF entry.parentName \in {Null, <<>>} THEN Null
               ELSE entry.parentName)
       ELSE IF /\ value.t # "throws"
               /\ Truthy(value)
               /\ valueStr # <<>> /\ valueStr # sNull /\ valueStr # sUndefined
         THEN stripWikilinks(valueStr)
       ELSE IF /\ startsWith(subtitleProperty, NotePrefix)
               /\ propName \in DOMAIN entry.frontmatter
               /\ entry.frontmatter[propName].t \notin {"null", "undefined"}
         THEN stripWikilinks(JSString(entry.frontmatter[propName]))
       ELSE Null

-----------------------------------------------------------------------------
(* The content of one list entry *)

FileName == <<"f", "i", "l", "e", ".", "n", "a", "m", "e">>

\* const descFields = ["description", "summary", "excerpt", "abstract"]
descFields ==
    << <<"d", "e", "s", "c", "r", "i", "p", "t", "i", "o", "n">>,
       <<"s", "u", "m", "m", "a", "r", "y">>,
       <<"e", "x", "c", "e", "r", "p", "t">>,
       <<"a", "b", "s", "t", "r", "a", "c", "t">> >>

\* parsePropertyId(propertyId): the type before the first ".", the name after
parsePropertyId(propertyId) ==
    LET dot == Least({i \in 1..Len(propertyId) : propertyId[i] = "."})
    IN [type |-> SubSeq(propertyId, 1, dot - 1),
        name |-> SubSeq(propertyId, dot + 1, Len(propertyId))]

\* what a call of truncateToLines(text, lines) returns to getPreview, with
\* the call itself on record
Truncated(text, lines) ==
    [v |-> truncateToLines(text, lines),
     calls |-> <<[fn |-> "truncateToLines", lines |-> lines]>>]

NoPreview == [v |-> Null, calls |-> <<>>]

\* the preview text (Null for null) and the truncateToLines call it made
getPreview(entry, lines, previewProperty) ==
    LET value == getValue(entry, previewProperty)
        valueStr == JSString(value)
        propName == slice(previewProperty, 5)
        found == {k \in 1..Len(descFields) :
                    /\ descFields[k] \in DOMAIN entry.frontmatter
                    /\ Truthy(entry.frontmatter[descFields[k]])}
    IN IF previewProperty \notin {Null, <<>>}
       THEN (IF /\ value.t # "throws"
                /\ Truthy(value)
                /\ valueStr # <<>> /\ valueStr # sNull /\ valueStr # sUndefined
               THEN Truncated(stripWikilinks(valueStr), lines)
             ELSE IF /\ startsWith(previewProperty, NotePrefix)
                     /\ propName \in DOMAIN entry.frontmatter
                     /\ entry.frontmatter[propName].t \notin {"null", "undefined"}
               THEN Truncated(stripWikilinks(JSString(entry.frontmatter[propName])),
                              lines)
             ELSE NoPreview)
       ELSE IF found # {}
         THEN Truncated(JSString(entry.frontmatter[descFields[Least(found)]]), lines)
       ELSE NoPreview

sTags == <<"t", "a", "g", "s">>

\* metadataCache.getFileCache(entry.file): the frontmatter and the inline
\* tags (tagCache.tag of each); a cache without tags is one with none, the
\* loop over them being skipped either way
getFileCache(entry) ==
    [frontmatter |-> entry.frontmatter,
     tags |-> IF "tags" \in DOMAIN entry THEN entry.tags ELSE <<>>]

\* the loop over cache.tags: each tag without its leading "#", pushed unless
\* tags includes it
RECURSIVE InlineTagLoop(_, _)
InlineTagLoop(tags, cacheTags) ==
    IF cacheTags = <<>> THEN tags
    ELSE LET raw == Head(cacheTags)
             tag == IF startsWith(raw, <<"#">>) THEN slice(raw, 1) ELSE raw
         IN InlineTagLoop(IF \E k \in 1..Len(tags) : tags[k] = tag THEN tags
                          ELSE Append(tags, tag),
                          Tail(cacheTags))

getTags(entry) ==
    LET cache == getFileCache(entry)
        fmTags == cache.frontmatter[sTags]
        fromFrontmatter ==
            IF sTags \in DOMAIN cache.frontmatter /\ Truthy(fmTags)
            THEN (IF fmTags.t = "array"
                  THEN [k \in 1..Len(fmTags.v) |-> fmTags.v[k].v]
                  ELSE IF fmTags.t = "string" THEN <<fmTags.v>>
                  ELSE <<>>)
            ELSE <<>>
    IN InlineTagLoop(fromFrontmatter, cache.tags)

\* for (const propertyId of options.order): the property spans appended to
\* propsEl; threw when entry.getValue threw, which ends renderEntry
RECURSIVE OrderLoop(_, _, _)
OrderLoop(propsEl, entry, order) ==
    IF order = <<>> THEN [threw |-> FALSE, properties |-> propsEl]
    ELSE LET propertyId == Head(order)
             parsed == parsePropertyId(propertyId)
             value == getValue(entry, propertyId)
             valueStr == JSString(value)
         IN IF parsed.name = <<"n", "a", "m", "e">> /\ parsed.type = <<"f", "i", "l", "e">>
              THEN OrderLoop(propsEl, entry, Tail(order))
            ELSE IF value.t = "throws"
              THEN [threw |-> TRUE, properties |-> propsEl]
            ELSE IF ~Truthy(value)
              THEN OrderLoop(propsEl, entry, Tail(order))
            ELSE IF valueStr = <<>> \/ valueStr = sNull \/ valueStr = sUndefined
              THEN OrderLoop(propsEl, entry, Tail(order))
            ELSE OrderLoop(Append(propsEl, renderTextWithLinks(valueStr)), entry,
                           Tail(order))

\* the subtitle span's text, Null when no span is created
Subtitle(entry, options) ==
    LET subtitleText == getSubtitleText(entry, options.subtitleProperty)
    IN IF options.showSubtitle /\ subtitleText \notin {Null, <<>>}
       THEN subtitleText ELSE Null

\* renderEntryContent with the preview made for every line count from 0 on
renderEntryContentFromZero(entry, options) ==
    LET preview == IF options.previewLines >= 0
                   THEN getPreview(entry, options.previewLines,
                                   options.previewProperty)
                   ELSE NoPreview
        props == OrderLoop(<<>>, entry, options.order)
    IN [threw |-> props.threw,
        subtitle |-> Subtitle(entry, options),
        preview |-> IF preview.v = <<>> THEN Null ELSE preview.v,
        properties |-> props.properties,
        calls |-> IF options.previewLines >= 0
                  THEN <<[fn |-> "getPreview", lines |-> options.previewLines]>>
                       \o preview.calls
                  ELSE <<>>]

\* What renderEntry puts into the item's content area: subtitle, preview and
\* the properties of the order list (thumbnail, tags and footer read the
\* metadata cache only); calls lists its calls of getPreview and
\* truncateToLines, and threw tells that an exception left renderEntry.
renderEntryContent(entry, options) ==
    LET preview == IF options.previewLines > 0
                   THEN getPreview(entry, options.previewLines,
                                   options.previewProperty)
                   ELSE NoPreview
        props == OrderLoop(<<>>, entry, options.order)
    IN [threw |-> props.threw,
        subtitle |-> Subtitle(entry, options),
        preview |-> IF preview.v = <<>> THEN Null ELSE preview.v,
        properties |-> props.properties,
        calls |-> IF options.previewLines > 0
                  THEN <<[fn |-> "getPreview", lines |-> options.previewLines]>>
                       \o preview.calls
                  ELSE <<>>]

\* for (const entry of nativeGroup.entries) this.renderEntry(...): the items
\* created, and whether the loop, and with it onDataUpdated, ran to its end
RECURSIVE RenderItems(_, _, _)
RenderItems(items, entries, options) ==
    IF entries = <<>> THEN [completed |-> TRUE, items |-> items]
    ELSE LET item == renderEntryContent(Head(entries), options)
         IN IF item.threw
            THEN [completed |-> FALSE, items |-> Append(items, item)]
            ELSE RenderItems(Append(items, item), Tail(entries), options)

\* position of groupKey among the keys of the map, 0 when absent
KeyIndex(groups, groupKey) ==
    IF \E k \in 1..Len(groups) : groups[k].key = groupKey
    THEN CHOOSE k \in 1..Len(groups) : groups[k].key = groupKey
    ELSE 0

\* GroupPut with the bucket created anew for every entry
GroupPutReset(groups, groupKey, path) ==
    LET k == KeyIndex(groups, groupKey)
    IN IF k = 0
       THEN Append(groups, [key |-> groupKey, entries |-> <<path>>])
       ELSE [groups EXCEPT ![k].entries = <<path>>]

\* GroupPut with a key moved to the end of the map whenever it is seen again
GroupPutLastSeen(groups, groupKey, path) ==
    LET k == KeyIndex(groups, groupKey)
    IN IF k = 0
       THEN Append(groups, [key |-> groupKey, entries |-> <<path>>])
       ELSE Append(SubSeq(groups, 1, k - 1) \o SubSeq(groups, k + 1, Len(groups)),
                   [key |-> groupKey, entries |-> Append(groups[k].entries, path)])

\* one iteration of the loop: groups.get(groupKey).push(entry)
GroupPut(groups, groupKey, path) ==
    LET k == KeyIndex(groups, groupKey)
    IN IF k = 0
       THEN Append(groups, [key |-> groupKey, entries |-> <<path>>])
       ELSE [groups EXCEPT ![k].entries = Append(@, path)]

RECURSIVE GroupLoop(_, _, _)
GroupLoop(groups, entries, propertyId) ==
    IF entries = <<>> THEN groups
    ELSE GroupLoop(
            GroupPut(groups, getPropertyValueAsString(Entry(Head(entries)), propertyId),
                     Head(entries)),
            Tail(entries), propertyId)

\* Map<string, BasesEntry[]> as the sequence of its [key, entries] pairs in
\* insertion order
groupEntriesByProperty(entries, propertyId) ==
    GroupLoop(<<>>, entries, propertyId)

-----------------------------------------------------------------------------
(* The rendered tree.  dom is the sequence of the elements created under   *)
(* containerEl, in creation order; parent is the index of the enclosing    *)
(* group element, 0 for containerEl itself.  A group element carries its   *)
(* header: title, count, collapse flag and the click handler's closure.    *)

Levels == <<"primary", "secondary", "tertiary">>

DoubleColon == <<":", ":">>
Colon == <<":">>

\* createDiv("enhanced-list-group") before its header is rendered
GroupEl(parent, level, key, set, entries) ==
    [cls |-> "group", parent |-> parent, level |-> level,
     key |-> key, set |-> set, entries |-> entries,
     title |-> <<>>, count |-> 0, isCollapsed |-> FALSE,
     clickKey |-> <<>>, clickSet |-> "", entry |-> 0]

\* createDiv("enhanced-list-item") of renderEntry
ItemEl(parent, path) ==
    [cls |-> "item", parent |-> parent, level |-> "",
     key |-> <<>>, set |-> "", entries |-> <<>>,
     title |-> <<>>, count |-> 0, isCollapsed |-> FALSE,
     clickKey |-> <<>>, clickSet |-> "", entry |-> path]

\* createDiv("enhanced-list-empty")
EmptyEl ==
    [cls |-> "empty", parent |-> 0, level |-> "",
     key |-> <<>>, set |-> "", entries |-> <<>>,
     title |-> <<>>, count |-> 0, isCollapsed |-> FALSE,
     clickKey |-> <<>>, clickSet |-> "", entry |-> 0]

\* (level === "secondary" || level === "tertiary") ? collapsedSubGroups : collapsedGroups
\* SetOfLevel with only the secondary role kept in the nested set
SetOfLevelOnlySecondary(level) ==
    IF level = "secondary" THEN "collapsedSubGroups" ELSE "collapsedGroups"

SetOfLevel(level) ==
    IF level = "secondary" \/ level = "tertiary" THEN "collapsedSubGroups"
    ELSE "collapsedGroups"

CollapsedSet(this, set) ==
    IF set = "collapsedSubGroups" THEN this.collapsedSubGroups
    ELSE this.collapsedGroups

\* The header of groupEl.  compoundKey is Null when the argument is omitted.
renderGroupHeader(groupEl, title, count, isCollapsed, level, compoundKey) ==
    [groupEl EXCEPT
        !.title = stripWikilinks(title),
        !.count = count,
        !.isCollapsed = isCollapsed,
        !.clickKey = IF compoundKey = Null \/ compoundKey = <<>> THEN title
                     ELSE compoundKey,
        !.clickSet = SetOfLevel(level)]

renderEntry(elems, parent, path) == Append(elems, ItemEl(parent, path))

RECURSIVE renderEntries(_, _, _)
renderEntries(elems, parent, entries) ==
    IF entries = <<>> THEN elems
    ELSE renderEntries(renderEntry(elems, parent, Head(entries)), parent,
                       Tail(entries))

\* collapseKey of a plugin group of the first plugin level
CollapseKey(nativeKey, groupKey) ==
    IF nativeKey # <<>> THEN nativeKey \o DoubleColon \o groupKey ELSE groupKey

\* CompoundKey with "::" between the two plugin keys also without native key
CompoundKeyAlwaysDouble(nativeKey, groupKey, subGroupKey) ==
    IF nativeKey # <<>>
    THEN nativeKey \o DoubleColon \o groupKey \o DoubleColon \o subGroupKey
    ELSE groupKey \o DoubleColon \o subGroupKey

\* compoundKey of a plugin group of the second plugin level
CompoundKey(nativeKey, groupKey, subGroupKey) ==
    IF nativeKey # <<>>
    THEN nativeKey \o DoubleColon \o groupKey \o DoubleColon \o subGroupKey
    ELSE groupKey \o Colon \o subGroupKey

\* renderCustomGroup without the early return of a collapsed group
renderCustomGroupNoReturn(this, elems, parentEl, nativeKey, groupKey, entries, levelOffset) ==
    LET level == Levels[levelOffset + 1]
        collapseKey == CollapseKey(nativeKey, groupKey)
        collapsedSet == SetOfLevel(level)
        isCollapsed == collapseKey \in CollapsedSet(this, collapsedSet)
        groupEl == renderGroupHeader(
                      GroupEl(parentEl, level, collapseKey, collapsedSet, entries),
                      groupKey, Len(entries), isCollapsed, level, collapseKey)
        self == Len(elems) + 1
    IN renderEntries(Append(elems, groupEl), self, entries)

renderCustomGroup(this, elems, parentEl, nativeKey, groupKey, entries, levelOffset) ==
    LET level == Levels[levelOffset + 1]
        collapseKey == CollapseKey(nativeKey, groupKey)
        collapsedSet == SetOfLevel(level)
        isCollapsed == collapseKey \in CollapsedSet(this, collapsedSet)
        groupEl == renderGroupHeader(
                      GroupEl(parentEl, level, collapseKey, collapsedSet, entries),
                      groupKey, Len(entries), isCollapsed, level, collapseKey)
        self == Len(elems) + 1
    IN IF isCollapsed THEN Append(elems, groupEl)
       ELSE renderEntries(Append(elems, groupEl), self, entries)

\* the loop over the sub-groups of the group element at index groupIdx
RECURSIVE renderSubGroups(_, _, _, _, _, _, _)
renderSubGroups(this, elems, groupIdx, nativeKey, groupKey, subGroups, subLevel) ==
    IF subGroups = <<>> THEN elems
    ELSE LET subGroupKey == Head(subGroups).key
             subEntries == Head(subGroups).entries
             compoundKey == CompoundKey(nativeKey, groupKey, subGroupKey)
             isSubCollapsed == compoundKey \in this.collapsedSubGroups
             subGroupEl == renderGroupHeader(
                              GroupEl(groupIdx, subLevel, compoundKey,
                                      "collapsedSubGroups", subEntries),
                              subGroupKey, Len(subEntries), isSubCollapsed,
                              subLevel, compoundKey)
             self == Len(elems) + 1
             next == IF isSubCollapsed THEN Append(elems, subGroupEl)
                     ELSE renderEntries(Append(elems, subGroupEl), self, subEntries)
         IN renderSubGroups(this, next, groupIdx, nativeKey, groupKey,
                            Tail(subGroups), subLevel)

\* renderGroupWithSubGroups with the sub-grouping started at the second entry
renderGroupWithSubGroupsSkipFirst(this, elems, parentEl, nativeKey, groupKey, entries, subGroupProperty, levelOffset) ==
    LET primaryLevel == Levels[levelOffset + 1]
        subLevel == Levels[levelOffset + 2]
        collapseKey == CollapseKey(nativeKey, groupKey)
        primaryCollapsedSet == SetOfLevel(primaryLevel)
        isCollapsed == collapseKey \in CollapsedSet(this, primaryCollapsedSet)
        groupEl == renderGroupHeader(
                      GroupEl(parentEl, primaryLevel, collapseKey,
                              primaryCollapsedSet, entries),
                      groupKey, Len(entries), isCollapsed, primaryLevel, collapseKey)
        self == Len(elems) + 1
    IN IF isCollapsed THEN Append(elems, groupEl)
       ELSE renderSubGroups(this, Append(elems, groupEl), self, nativeKey, groupKey,
                            groupEntriesByProperty(Tail(entries), subGroupProperty),
                            subLevel)

renderGroupWithSubGroups(this, elems, parentEl, nativeKey, groupKey, entries, subGroupProperty, levelOffset) ==
    LET primaryLevel == Levels[levelOffset + 1]
        subLevel == Levels[levelOffset + 2]
        collapseKey == CollapseKey(nativeKey, groupKey)
        primaryCollapsedSet == SetOfLevel(primaryLevel)
        isCollapsed == collapseKey \in CollapsedSet(this, primaryCollapsedSet)
        groupEl == renderGroupHeader(
                      GroupEl(parentEl, primaryLevel, collapseKey,
                              primaryCollapsedSet, entries),
                      groupKey, Len(entries), isCollapsed, primaryLevel, collapseKey)
        self == Len(elems) + 1
    IN IF isCollapsed THEN Append(elems, groupEl)
       ELSE renderSubGroups(this, Append(elems, groupEl), self, nativeKey, groupKey,
                            groupEntriesByProperty(entries, subGroupProperty),
                            subLevel)

\* for (const [groupKey, entries] of groupedEntries) with both groupings selected
RECURSIVE renderGroupsWithSubGroups(_, _, _, _, _, _, _)
renderGroupsWithSubGroups(this, elems, parentEl, nativeKey, groups, subGroupProperty, levelOffset) ==
    IF groups = <<>> THEN elems
    ELSE renderGroupsWithSubGroups(this,
            renderGroupWithSubGroups(this, elems, parentEl, nativeKey,
                Head(groups).key, Head(groups).entries, subGroupProperty, levelOffset),
            parentEl, nativeKey, Tail(groups), subGroupProperty, levelOffset)

\* for (const [groupKey, entries] of groupedEntries) with one grouping selected
RECURSIVE renderCustomGroups(_, _, _, _, _, _)
renderCustomGroups(this, elems, parentEl, nativeKey, groups, levelOffset) ==
    IF groups = <<>> THEN elems
    ELSE renderCustomGroups(this,
            renderCustomGroup(this, elems, parentEl, nativeKey,
                Head(groups).key, Head(groups).entries, levelOffset),
            parentEl, nativeKey, Tail(groups), levelOffset)

\* this.data.groupedData.some(g => g.hasKey())
hasNativeGrouping(this) ==
    \E k \in 1..Len(this.groupedData) : this.groupedData[k].hasKey

\* nativeGroup.hasKey() ? (nativeGroup.key?.toString() ?? "__ungrouped__") : ""
NativeKey(nativeGroup) ==
    IF nativeGroup.hasKey
    THEN (IF nativeGroup.key.t \in {"null", "undefined"} THEN sUngrouped
          ELSE JSString(nativeGroup.key))
    ELSE <<>>

\* nativeGroup.key?.toString() ?? ""
NativeTitle(nativeGroup) ==
    IF nativeGroup.key.t \in {"null", "undefined"} THEN <<>>
    ELSE JSString(nativeGroup.key)

\* renderNativeBody with the plugin groups created in containerEl, beside the
\* native group's element
renderNativeBodyBeside(this, elems, parentEl, nativeKey, entries, levelOffset) ==
    LET groupByProperty == this.config.primaryGroup
        subGroupByProperty == this.config.subGroup
    IN IF groupByProperty # Null
       THEN (IF subGroupByProperty # Null
             THEN renderGroupsWithSubGroups(this, elems, 0, nativeKey,
                     groupEntriesByProperty(entries, groupByProperty),
                     subGroupByProperty, levelOffset)
             ELSE renderCustomGroups(this, elems, 0, nativeKey,
                     groupEntriesByProperty(entries, groupByProperty), levelOffset))
       ELSE IF subGroupByProperty # Null
       THEN renderCustomGroups(this, elems, 0, nativeKey,
               groupEntriesByProperty(entries, subGroupByProperty), levelOffset)
       ELSE renderEntries(elems, parentEl, entries)

\* renderNativeBody with a lone secondary selection rendered one role deeper
\* than a lone primary selection
renderNativeBodySecondaryDeeper(this, elems, parentEl, nativeKey, entries, levelOffset) ==
    LET groupByProperty == this.config.primaryGroup
        subGroupByProperty == this.config.subGroup
    IN IF groupByProperty # Null
       THEN (IF subGroupByProperty # Null
             THEN renderGroupsWithSubGroups(this, elems, parentEl, nativeKey,
                     groupEntriesByProperty(entries, groupByProperty),
                     subGroupByProperty, levelOffset)
             ELSE renderCustomGroups(this, elems, parentEl, nativeKey,
                     groupEntriesByProperty(entries, groupByProperty), levelOffset))
       ELSE IF subGroupByProperty # Null
       THEN renderCustomGroups(this, elems, parentEl, nativeKey,
               groupEntriesByProperty(entries, subGroupByProperty),
               levelOffset + 1)
       ELSE renderEntries(elems, parentEl, entries)

\* "Apply plugin grouping within this native group's entries"
renderNativeBody(this, elems, parentEl, nativeKey, entries, levelOffset) ==
    LET groupByProperty == this.config.primaryGroup
        subGroupByProperty == this.config.subGroup
    IN IF groupByProperty # Null
       THEN (IF subGroupByProperty # Null
             THEN renderGroupsWithSubGroups(this, elems, parentEl, nativeKey,
                     groupEntriesByProperty(entries, groupByProperty),
                     subGroupByProperty, levelOffset)
             ELSE renderCustomGroups(this, elems, parentEl, nativeKey,
                     groupEntriesByProperty(entries, groupByProperty), levelOffset))
       ELSE IF subGroupByProperty # Null
       THEN renderCustomGroups(this, elems, parentEl, nativeKey,
               groupEntriesByProperty(entries, subGroupByProperty), levelOffset)
       ELSE renderEntries(elems, parentEl, entries)

\* one iteration of: for (const nativeGroup of this.data.groupedData)
renderNativeGroup(this, elems, nativeGroup, levelOffset) ==
    LET nativeKey == NativeKey(nativeGroup)
    IN IF nativeGroup.hasKey
       THEN LET isNativeCollapsed == nativeKey \in this.collapsedGroups
                nativeGroupEl == renderGroupHeader(
                    GroupEl(0, "primary", nativeKey, "collapsedGroups",
                            nativeGroup.entries),
                    stripWikilinks(NativeTitle(nativeGroup)),
                    Len(nativeGroup.entries), isNativeCollapsed, "primary", Null)
                self == Len(elems) + 1
            IN IF isNativeCollapsed THEN Append(elems, nativeGroupEl)
               ELSE renderNativeBody(this, Append(elems, nativeGroupEl), self,
                                     nativeKey, nativeGroup.entries, levelOffset)
       ELSE renderNativeBody(this, elems, 0, nativeKey, nativeGroup.entries,
                             levelOffset)

RECURSIVE renderNativeGroups(_, _, _, _)
renderNativeGroups(this, elems, nativeGroups, levelOffset) ==
    IF nativeGroups = <<>> THEN elems
    ELSE renderNativeGroups(this,
            renderNativeGroup(this, elems, Head(nativeGroups), levelOffset),
            Tail(nativeGroups), levelOffset)

RECURSIVE SumLen(_)
SumLen(nativeGroups) ==
    IF nativeGroups = <<>> THEN 0
    ELSE Len(Head(nativeGroups).entries) + SumLen(Tail(nativeGroups))

\* The children of containerEl after onDataUpdated has run on the view `this`
\* (a record of the view's fields).
onDataUpdated(this) ==
    LET levelOffset == IF hasNativeGrouping(this) THEN 1 ELSE 0
        totalEntries == SumLen(this.groupedData)
        elems == renderNativeGroups(this, <<>>, this.groupedData, levelOffset)
    IN IF totalEntries = 0 THEN Append(elems, EmptyEl) ELSE elems

-----------------------------------------------------------------------------
(* The host: the data and configuration it hands to the view *)

\* the key the host's own group-by gives an entry of each kind; VNull: no key
KindNativeKey(kind) == <<VObject(sA), VObject(sA), VObject(sLinkA), VNull>>[kind]

HostGroupPut(nativeGroups, key, path) ==
    LET k == KeyIndex(nativeGroups, key)
    IN IF k = 0
       THEN Append(nativeGroups,
                   [key |-> key, hasKey |-> key # VNull, entries |-> <<path>>])
       ELSE [nativeGroups EXCEPT ![k].entries = Append(@, path)]

RECURSIVE HostGroupLoop(_, _)
HostGroupLoop(nativeGroups, entries) ==
    IF entries = <<>> THEN nativeGroups
    ELSE HostGroupLoop(
            HostGroupPut(nativeGroups, KindNativeKey(EntryKind(Head(entries))),
                         Head(entries)),
            Tail(entries))

\* groupedData for the first n entries of the vault: one group without key when
\* the base has no group-by, else one group per key in first-seen order
HostData(n, grouped) ==
    LET entries == [k \in 1..n |-> k]
    IN IF grouped THEN HostGroupLoop(<<>>, entries)
       ELSE IF n = 0 THEN <<>>
       ELSE <<[key |-> VNull, hasKey |-> FALSE, entries |-> entries]>>

\* the vault as it is, the vault before its last entry was added, and no entry
DataSets ==
    {HostData(n, grouped) : n \in {0, NumEntries - 1, NumEntries}, grouped \in BOOLEAN}

\* getConfigPropertyId("primaryGroup"), getConfigPropertyId("subGroup")
Configs == [primaryGroup : {Null, NoteS}, subGroup : {Null, NoteT}]

-----------------------------------------------------------------------------
(* The view *)

NoCall == [fn |-> "none"]
NoRet == [fn |-> "none"]

\* the fields of the view object
This ==
    [groupedData |-> groupedData, config |-> config,
     collapsedGroups |-> collapsedGroups, collapsedSubGroups |-> collapsedSubGroups]

\* HeaderClick that also forgets the nested choices when a top-level group is
\* collapsed
HeaderClickClearNested(this, el) ==
    IF el.clickSet = "collapsedSubGroups"
    THEN [this EXCEPT !.collapsedSubGroups =
            IF el.isCollapsed THEN @ \ {el.clickKey} ELSE @ \cup {el.clickKey}]
    ELSE [this EXCEPT !.collapsedGroups =
            IF el.isCollapsed THEN @ \ {el.clickKey} ELSE @ \cup {el.clickKey},
                      !.collapsedSubGroups = IF el.isCollapsed THEN @ ELSE {}]

\* the click listener of a group header: the view after collapsedSet.delete / add
HeaderClick(this, el) ==
    IF el.clickSet = "collapsedSubGroups"
    THEN [this EXCEPT !.collapsedSubGroups =
            IF el.isCollapsed THEN @ \ {el.clickKey} ELSE @ \cup {el.clickKey}]
    ELSE [this EXCEPT !.collapsedGroups =
            IF el.isCollapsed THEN @ \ {el.clickKey} ELSE @ \cup {el.clickKey}]

Init ==
    /\ groupedData = <<>>
    /\ config = [primaryGroup |-> Null, subGroup |-> Null]
    /\ collapsedGroups = {}
    /\ collapsedSubGroups = {}
    /\ dom = <<>>
    /\ loaded = TRUE
    /\ call = NoCall
    /\ ret = NoRet

\* the host has new data and calls onDataUpdated
DataChanged(d) ==
    /\ loaded
    /\ groupedData' = d
    /\ dom' = onDataUpdated([This EXCEPT !.groupedData = d])
    /\ UNCHANGED <<config, collapsedGroups, collapsedSubGroups, loaded, call, ret>>

\* the user changes a view option and the host calls onDataUpdated
ConfigChanged(c) ==
    /\ loaded
    /\ config' = c
    /\ dom' = onDataUpdated([This EXCEPT !.config = c])
    /\ UNCHANGED <<groupedData, collapsedGroups, collapsedSubGroups, loaded, call, ret>>

\* ClickHeader that flips the clicked element in place instead of rendering anew
ClickHeaderPatch(i) ==
    /\ loaded
    /\ dom[i].cls = "group"
    /\ dom[i].isCollapsed
       \/ Cardinality(collapsedGroups) + Cardinality(collapsedSubGroups) < MaxCollapsed
    /\ LET this == HeaderClick(This, dom[i])
       IN /\ collapsedGroups' = this.collapsedGroups
          /\ collapsedSubGroups' = this.collapsedSubGroups
          /\ dom' = [dom EXCEPT ![i].isCollapsed = ~@]
    /\ UNCHANGED <<groupedData, config, loaded, call, ret>>

\* the user clicks the header of the group element dom[i]
ClickHeader(i) ==
    /\ loaded
    /\ dom[i].cls = "group"
    /\ dom[i].isCollapsed
       \/ Cardinality(collapsedGroups) + Cardinality(collapsedSubGroups) < MaxCollapsed
    /\ LET this == HeaderClick(This, dom[i])
       IN /\ collapsedGroups' = this.collapsedGroups
          /\ collapsedSubGroups' = this.collapsedSubGroups
          /\ dom' = onDataUpdated(this)
    /\ UNCHANGED <<groupedData, config, loaded, call, ret>>

\* onUnload: containerEl.empty(); collapsedGroups.clear()
OnUnload ==
    /\ loaded
    /\ dom' = <<>>
    /\ collapsedGroups' = {}
    /\ loaded' = FALSE
    /\ UNCHANGED <<groupedData, config, collapsedSubGroups, call, ret>>

Next ==
    \/ \E d \in DataSets : DataChanged(d)
    \/ \E c \in Configs : ConfigChanged(c)
    \/ \E i \in DOMAIN dom : ClickHeader(i)
    \/ OnUnload

Spec == Init /\ [][Next]_vars

-----------------------------------------------------------------------------
(* groupEntriesByProperty on its own: every sequence of distinct entries of *)
(* the vault, every property id                                             *)

Range(seq) == {seq[k] : k \in DOMAIN seq}

\* all sequences of distinct elements of S
RECURSIVE Arrangements(_)
Arrangements(S) ==
    IF S = {} THEN {<<>>}
    ELSE {<<>>} \cup
         UNION {{<<x>> \o rest : rest \in Arrangements(S \ {x})} : x \in S}

GroupCalls ==
    [fn : {"groupEntriesByProperty"}, entries : Arrangements(EntryPaths),
     propertyId : PropertyIds]

InitGroup ==
    /\ groupedData = <<>>
    /\ config = [primaryGroup |-> Null, subGroup |-> Null]
    /\ collapsedGroups = {}
    /\ collapsedSubGroups = {}
    /\ dom = <<>>
    /\ loaded = TRUE
    /\ call \in GroupCalls
    /\ ret = NoRet

CallGroup ==
    /\ call.fn = "groupEntriesByProperty"
    /\ ret = NoRet
    /\ ret' = [fn |-> call.fn,
               groups |-> groupEntriesByProperty(call.entries, call.propertyId)]
    /\ UNCHANGED <<groupedData, config, collapsedGroups, collapsedSubGroups, dom,
                   loaded, call>>

NextGroup == CallGroup

SpecGroup == InitGroup /\ [][NextGroup]_vars

Returned == ret.fn = "groupEntriesByProperty"

RECURSIVE SumCounts(_)
SumCounts(groups) ==
    IF groups = <<>> THEN 0
    ELSE Len(Head(groups).entries) + SumCounts(Tail(groups))

\* the places <<bucket, position>> where path occurs in the buckets
Places(groups, path) ==
    {<<k, j>> \in (DOMAIN groups) \X (1..NumEntries + 1) :
        j <= Len(groups[k].entries) /\ groups[k].entries[j] = path}

\* C1: the buckets of groupEntriesByProperty(E, P) partition E: every entry of
\* E is in exactly one bucket (once), no bucket is empty, and the bucket sizes
\* sum to the length of E.
C1_GroupsPartition ==
    Returned =>
        /\ \A path \in Range(call.entries) :
              Cardinality(Places(ret.groups, path)) = 1
        /\ \A k \in DOMAIN ret.groups :
              /\ ret.groups[k].entries # <<>>
              /\ Range(ret.groups[k].entries) \subseteq Range(call.entries)
        /\ SumCounts(ret.groups) = Len(call.entries)

C1_Witness ==
    /\ Returned
    /\ Len(ret.groups) >= 2
    /\ \E k \in DOMAIN ret.groups : Len(ret.groups[k].entries) >= 2

\* position of path in the input sequence
IndexIn(seq, x) == CHOOSE k \in DOMAIN seq : seq[k] = x

\* C2: buckets come in the order in which their key was first seen in the
\* input, each bucket holds exactly the entries that resolve to its key, and
\* inside a bucket the entries keep their relative input order.
C2_EncounterOrder ==
    Returned =>
        LET E == call.entries
            g == ret.groups
            first(k) == IndexIn(E, g[k].entries[1])
        IN /\ \A k \in DOMAIN g :
                /\ g[k].entries # <<>>
                /\ \A j \in DOMAIN g[k].entries :
                      getPropertyValueAsString(Entry(g[k].entries[j]), call.propertyId)
                          = g[k].key
                /\ \A i, j \in DOMAIN g[k].entries :
                      i < j => IndexIn(E, g[k].entries[i]) < IndexIn(E, g[k].entries[j])
           /\ \A k, l \in DOMAIN g : k < l =>
                /\ g[k].key # g[l].key
                /\ first(k) < first(l)

\* the key first seen is "b", the next one "a": first-seen order, not sorted
C2_Witness ==
    /\ Returned
    /\ Len(ret.groups) >= 2
    /\ ret.groups[1].key = sB
    /\ ret.groups[2].key = sA
    /\ Len(ret.groups[1].entries) >= 2

-----------------------------------------------------------------------------
(* Reading the rendered tree *)

GroupIdx(d) == {i \in DOMAIN d : d[i].cls = "group"}

ItemIdx(d) == {i \in DOMAIN d : d[i].cls = "item"}

ChildGroups(d, i) == {j \in GroupIdx(d) : d[j].parent = i}

ChildItems(d, i) == {j \in ItemIdx(d) : d[j].parent = i}

\* the entries rendered directly under element i, in document order
ItemsUnder(d, i) ==
    LET Under(el) == el.cls = "item" /\ el.parent = i
        items == SelectSeq(d, Under)
    IN [k \in DOMAIN items |-> items[k].entry]

RECURSIVE SumOver(_, _)
SumOver(d, idx) ==
    IF idx = {} THEN 0
    ELSE LET i == CHOOSE i \in idx : TRUE
         IN d[i].count + SumOver(d, idx \ {i})

LevelOffset == IF hasNativeGrouping(This) THEN 1 ELSE 0

\* the group elements of the host's keyed groups
NativeEls(d) == {i \in GroupIdx(d) : LevelOffset = 1 /\ d[i].level = "primary"}

\* the group elements of the first and of the second plugin level
Plugin1Els(d) ==
    {i \in GroupIdx(d) : d[i].level = Levels[LevelOffset + 1]} \ NativeEls(d)

Plugin2Els(d) == {i \in GroupIdx(d) : d[i].level = Levels[LevelOffset + 2]}

AllEntries == UNION {Range(groupedData[k].entries) : k \in DOMAIN groupedData}

BothSelected == config.primaryGroup # Null /\ config.subGroup # Null

\* C3: with both plugin groupings selected the sub-groups of every rendered
\* primary bucket partition it (each entry of the bucket in exactly one
\* sub-group, no sub-group empty, sub-group counts summing to the bucket's
\* count), and when nothing is collapsed every input entry is rendered exactly
\* once, under a sub-group that holds it.
C3_SubGroupsPartition ==
    (loaded /\ BothSelected) =>
        /\ \A i \in Plugin1Els(dom) :
              /\ dom[i].count = Len(dom[i].entries)
              /\ ~dom[i].isCollapsed =>
                    /\ SumOver(dom, ChildGroups(dom, i)) = dom[i].count
                    /\ ChildGroups(dom, i) \subseteq Plugin2Els(dom)
                    /\ \A j \in ChildGroups(dom, i) :
                          /\ dom[j].count = Len(dom[j].entries)
                          /\ dom[j].count > 0
                    /\ \A path \in Range(dom[i].entries) :
                          Cardinality({j \in ChildGroups(dom, i) :
                                          path \in Range(dom[j].entries)}) = 1
        /\ (\A i \in GroupIdx(dom) : ~dom[i].isCollapsed) =>
              \A path \in AllEntries :
                 /\ Cardinality({j \in ItemIdx(dom) : dom[j].entry = path}) = 1
                 /\ \A j \in ItemIdx(dom) : dom[j].entry = path =>
                       /\ dom[j].parent \in Plugin2Els(dom)
                       /\ path \in Range(dom[dom[j].parent].entries)

C3_Witness ==
    /\ loaded /\ BothSelected
    /\ \A i \in GroupIdx(dom) : ~dom[i].isCollapsed
    /\ \E i \in Plugin1Els(dom) : Cardinality(ChildGroups(dom, i)) >= 2
    /\ Cardinality(Plugin1Els(dom)) >= 2

PluginSelected == config.primaryGroup # Null \/ config.subGroup # Null

\* the property the first plugin level groups by
Plugin1Property ==
    IF config.primaryGroup # Null THEN config.primaryGroup ELSE config.subGroup

\* the element of the keyed native group ng, when rendered as i
IsNativeElOf(d, i, ng) ==
    /\ i \in NativeEls(d)
    /\ d[i].parent = 0
    /\ d[i].key = NativeKey(ng)
    /\ d[i].entries = ng.entries

\* C4: with keyed native groups and a plugin grouping selected, every plugin
\* group node holds entries of exactly one native group and is a child of
\* that native group's element (of containerEl for the group without key);
\* a plugin key that occurs in two expanded native groups gives two nodes.
C4_PluginInsideNative ==
    (loaded /\ hasNativeGrouping(This) /\ PluginSelected) =>
        /\ \A i \in Plugin1Els(dom) :
              \E k \in DOMAIN groupedData :
                 LET ng == groupedData[k]
                 IN /\ Range(dom[i].entries) \subseteq Range(ng.entries)
                    /\ dom[i].entries # <<>>
                    /\ IF ng.hasKey THEN IsNativeElOf(dom, dom[i].parent, ng)
                       ELSE dom[i].parent = 0
        /\ \A i \in Plugin2Els(dom) :
              /\ dom[i].parent \in Plugin1Els(dom)
              /\ Range(dom[i].entries) \subseteq Range(dom[dom[i].parent].entries)
        /\ \A k, l \in DOMAIN groupedData :
              LET gk == groupedData[k]
                  gl == groupedData[l]
                  bk == groupEntriesByProperty(gk.entries, Plugin1Property)
                  bl == groupEntriesByProperty(gl.entries, Plugin1Property)
              IN (/\ k # l /\ gk.hasKey /\ gl.hasKey
                  /\ NativeKey(gk) \notin collapsedGroups
                  /\ NativeKey(gl) \notin collapsedGroups) =>
                 \A x \in DOMAIN bk, y \in DOMAIN bl :
                    bk[x].key = bl[y].key =>
                       \E i, j \in Plugin1Els(dom) :
                          /\ i # j
                          /\ dom[i].title = dom[j].title
                          /\ dom[i].entries = bk[x].entries
                          /\ dom[j].entries = bl[y].entries
                          /\ IsNativeElOf(dom, dom[i].parent, gk)
                          /\ IsNativeElOf(dom, dom[j].parent, gl)

C4_Witness ==
    /\ loaded /\ hasNativeGrouping(This) /\ PluginSelected
    /\ \E i, j \in Plugin1Els(dom) :
          /\ i # j
          /\ dom[i].title = dom[j].title
          /\ dom[i].parent # dom[j].parent
          /\ dom[i].parent # 0 /\ dom[j].parent # 0

-----------------------------------------------------------------------------
(* Clicks, as the listener and the render that follows it compute them *)

\* the indices of the group elements of d, in document order
GroupOrder(d) ==
    LET S == GroupIdx(d)
    IN [k \in 1..Cardinality(S) |->
          CHOOSE i \in S : Cardinality({j \in S : j < i}) = k - 1]

\* the tree after a click on the header of d[i] in the view `this`
AfterClick(this, d, i) == onDataUpdated(HeaderClick(this, d[i]))

\* the elements of d2 that show the group node d[i]: same level, same members
SameNode(d, i, d2) ==
    {j \in GroupIdx(d2) : d2[j].level = d[i].level /\ d2[j].entries = d[i].entries}

\* the groups nested, at any depth, in the group element i
Nested(d, i) ==
    ChildGroups(d, i) \cup UNION {ChildGroups(d, j) : j \in ChildGroups(d, i)}

NoNative == ~hasNativeGrouping(This)

OnlyPrimary == config.primaryGroup # Null /\ config.subGroup = Null

\* C5: no native grouping, only the primary plugin grouping: a click on the
\* header of an expanded group K re-renders with K's header shown collapsed
\* and none of K's entries, and with every other group's header, position,
\* collapse flag and rendered entries as before (an expanded one shows all of
\* its entries).
C5_CollapseHidesOnlyThatGroup ==
    (loaded /\ NoNative /\ OnlyPrimary) =>
        \A i \in GroupIdx(dom) : ~dom[i].isCollapsed =>
            LET d2 == AfterClick(This, dom, i)
                g1 == GroupOrder(dom)
                g2 == GroupOrder(d2)
            IN /\ Len(g2) = Len(g1)
               /\ \A k \in DOMAIN g1 :
                     /\ d2[g2[k]].title = dom[g1[k]].title
                     /\ d2[g2[k]].count = dom[g1[k]].count
                     /\ d2[g2[k]].parent = 0
                     /\ IF g1[k] = i
                        THEN /\ d2[g2[k]].isCollapsed
                             /\ ItemsUnder(d2, g2[k]) = <<>>
                             /\ \A j \in ItemIdx(d2) :
                                   d2[j].entry \notin Range(dom[i].entries)
                        ELSE /\ d2[g2[k]].isCollapsed = dom[g1[k]].isCollapsed
                             /\ ItemsUnder(d2, g2[k]) = ItemsUnder(dom, g1[k])
                             /\ ~dom[g1[k]].isCollapsed =>
                                   ItemsUnder(d2, g2[k]) = dom[g1[k]].entries

C5_Witness ==
    /\ loaded /\ NoNative /\ OnlyPrimary
    /\ \E i, j \in GroupIdx(dom) :
          /\ dom[i].isCollapsed
          /\ dom[i].key \in collapsedGroups
          /\ dom[i].count >= 2
          /\ i < j
          /\ ~dom[j].isCollapsed
          /\ ItemsUnder(dom, j) # <<>>

\* C6: for every group header (native, plugin level 1, plugin level 2) two
\* clicks in a row, each followed by its re-render, leave both collapse sets
\* with the contents they had before the first click.
C6_CollapseRoundTrip ==
    loaded =>
        \A i \in GroupIdx(dom) :
            LET t1 == HeaderClick(This, dom[i])
                d1 == onDataUpdated(t1)
            IN /\ SameNode(dom, i, d1) # {}
               /\ \A j \in SameNode(dom, i, d1) :
                     LET t2 == HeaderClick(t1, d1[j])
                     IN /\ t2.collapsedGroups = collapsedGroups
                        /\ t2.collapsedSubGroups = collapsedSubGroups

\* C7: a click on a primary-role header leaves the nested set as it is, a
\* click on a nested header leaves the top-level set as it is, and after a
\* primary group is clicked closed and clicked open again every group nested
\* in it is rendered with the collapse flag it had before.
C7_RolesIndependent ==
    loaded =>
        \A i \in GroupIdx(dom) :
            LET t1 == HeaderClick(This, dom[i])
                d1 == onDataUpdated(t1)
            IN /\ dom[i].level = "primary" =>
                     t1.collapsedSubGroups = collapsedSubGroups
               /\ dom[i].level # "primary" =>
                     t1.collapsedGroups = collapsedGroups
               /\ (dom[i].level = "primary" /\ ~dom[i].isCollapsed) =>
                     \A j \in SameNode(dom, i, d1) :
                        LET d2 == AfterClick(t1, d1, j)
                        IN \A g \in Nested(dom, i) :
                              \E h \in SameNode(dom, g, d2) :
                                 d2[h].isCollapsed = dom[g].isCollapsed

C7_Witness ==
    /\ loaded
    /\ \E i \in GroupIdx(dom) :
          /\ dom[i].level = "primary"
          /\ ~dom[i].isCollapsed
          /\ \E g, h \in Nested(dom, i) :
                /\ dom[g].isCollapsed
                /\ ~dom[h].isCollapsed
          /\ AfterClick(This, dom, i)[i].isCollapsed

\* C8: in a render pass no two distinct group nodes are looked up under the
\* same (collapse set, composite key) pair.
C8_KeysUnique ==
    loaded =>
        \A i, j \in GroupIdx(dom) :
            i # j => <<dom[i].set, dom[i].key>> # <<dom[j].set, dom[j].key>>

SymDiff(A, B) == (A \ B) \cup (B \ A)

\* t differs from this by exactly one key of exactly one collapse set
OneKeyOfOneSet(this, t) ==
    Cardinality(SymDiff(this.collapsedGroups, t.collapsedGroups))
      + Cardinality(SymDiff(this.collapsedSubGroups, t.collapsedSubGroups)) = 1

\* C10: a render pass after a data or option change leaves both collapse sets
\* as they are (keys of groups that are gone included), and a click on any
\* header adds or removes exactly one key in exactly one set.
C10_OnlyClicksChangeSets ==
    [][/\ loaded =>
            \A i \in GroupIdx(dom) :
                OneKeyOfOneSet(This, HeaderClick(This, dom[i]))
       /\ ((\E d \in DataSets : DataChanged(d))
             \/ (\E c \in Configs : ConfigChanged(c))) =>
            /\ collapsedGroups' = collapsedGroups
            /\ collapsedSubGroups' = collapsedSubGroups]_vars

-----------------------------------------------------------------------------
(* A lone secondary selection *)

OnlySecondary == config.primaryGroup = Null /\ config.subGroup # Null

\* the view with the secondary property moved to the primary option
SwappedThis ==
    [This EXCEPT !.config = [primaryGroup |-> config.subGroup, subGroup |-> Null]]

\* C11: with only the secondary property selected, the tree is the one drawn
\* when that property is the primary one and no secondary is selected: one
\* plugin level with the same groups, order, role, collapse set and keys.
C11_OnlySecondaryAsPrimary ==
    (loaded /\ OnlySecondary) => dom = onDataUpdated(SwappedThis)

C11_Witness ==
    /\ loaded
    /\ OnlySecondary
    /\ dom = onDataUpdated(SwappedThis)
    /\ hasNativeGrouping(This)
    /\ Cardinality(Plugin1Els(dom)) >= 2
    /\ \E i \in Plugin1Els(dom) : dom[i].isCollapsed
    /\ \E i \in Plugin1Els(dom) : ChildItems(dom, i) # {}

-----------------------------------------------------------------------------
(* Property resolution on its own: one entry, one property id, resolved once *)
(* as a group key and once as a subtitle.                                    *)

\* what entry.getValue may do: throw, return null, or return a Bases value
AccessorOutcomes ==
    {Throws, VNull, VObject(<<>>), VObject(sNull), VObject(sUndefined),
     VObject(sA), VObject(sLinkA)}

\* raw frontmatter values
RawValues ==
    {VNull, VString(<<>>), VString(sB), VString(sLinkB), VNumber(7),
     VBoolean(FALSE), VArray(<<>>), VArray(<<VString(sA), VString(sB)>>)}

\* cache.frontmatter: without the property s, or with a raw value for it
Frontmatters == {<<>>} \cup {(<<"s">> :> raw) : raw \in RawValues}

\* entry.file.parent?.name: no parent, the vault root's empty name, a folder
ParentNames == {Null, <<>>, sD}

ResolveEntries ==
    {[path |-> 1, kind |-> 1,
      values |-> [propertyId \in PropertyIds |-> outcome],
      frontmatter |-> frontmatter,
      parentName |-> parentName] :
        outcome \in AccessorOutcomes, frontmatter \in Frontmatters,
        parentName \in ParentNames}

NotRun == <<"<not run>">>

InitResolve ==
    /\ groupedData = <<>>
    /\ config = [primaryGroup |-> Null, subGroup |-> Null]
    /\ collapsedGroups = {}
    /\ collapsedSubGroups = {}
    /\ dom = <<>>
    /\ loaded = FALSE
    /\ \E entry \in ResolveEntries, propertyId \in PropertyIds :
          call = [fn |-> "resolve", entry |-> entry, propertyId |-> propertyId]
    /\ ret = [fn |-> "resolve", groupKey |-> NotRun, subtitle |-> NotRun]

CallGetPropertyValueAsString ==
    /\ call.fn = "resolve"
    /\ ret.groupKey = NotRun
    /\ ret' = [ret EXCEPT !.groupKey =
                  getPropertyValueAsString(call.entry, call.propertyId)]
    /\ UNCHANGED <<groupedData, config, collapsedGroups, collapsedSubGroups,
                   dom, loaded, call>>

CallGetSubtitleText ==
    /\ call.fn = "resolve"
    /\ ret.subtitle = NotRun
    /\ ret' = [ret EXCEPT !.subtitle =
                  getSubtitleText(call.entry, call.propertyId)]
    /\ UNCHANGED <<groupedData, config, collapsedGroups, collapsedSubGroups,
                   dom, loaded, call>>

NextResolve == CallGetPropertyValueAsString \/ CallGetSubtitleText

SpecResolve == InitResolve /\ [][NextResolve]_vars

\* the accessor step of the call yields no value: it throws, returns null, or
\* returns a value whose string form is "", "null" or "undefined"
NoValue ==
    LET value == getValue(call.entry, call.propertyId)
    IN \/ value.t \in {"throws", "null", "undefined"}
       \/ JSString(value) \in {<<>>, sNull, sUndefined}

\* the call's property is note.X with X present and non-null in the raw
\* metadata
InRawMetadata ==
    /\ startsWith(call.propertyId, NotePrefix)
    /\ slice(call.propertyId, 5) \in DOMAIN call.entry.frontmatter
    /\ call.entry.frontmatter[slice(call.propertyId, 5)].t
          \notin {"null", "undefined"}

\* C12: when the accessor step yields no value (it throws, returns null, or
\* returns a value whose string form is "", "null" or "undefined") and the
\* property is note.X with X present and non-null in the raw metadata, the
\* group key is the one derived from the raw metadata value of X.
C12_FallbackToRawMetadata ==
    (ret.groupKey # NotRun /\ NoValue /\ InRawMetadata) =>
        ret.groupKey =
            valueToGroupString(call.entry.frontmatter[slice(call.propertyId, 5)])

\* C14: where nothing resolves, the two resolutions differ only in the
\* fallback: for file.folder on an entry without a parent-folder name (the
\* accessor yielding no value) the group key is "Root" and the subtitle is
\* null; for any other property that no step resolves the group key is "None"
\* and the subtitle is null.
C14_FallbacksDiverge ==
    (ret.groupKey # NotRun /\ ret.subtitle # NotRun /\ NoValue) =>
        /\ (call.propertyId = FileFolder
              /\ call.entry.parentName \in {Null, <<>>}) =>
                (ret.groupKey = Root /\ ret.subtitle = Null)
        /\ (call.propertyId # FileFolder /\ ~InRawMetadata) =>
                (ret.groupKey = None /\ ret.subtitle = Null)

-----------------------------------------------------------------------------
(* valueToGroupString on its own *)

\* values that are not lists
Scalars ==
    {VNull, VUndefined, VString(<<>>), VString(sA), VString(sB),
     VString(sLinkA), VNumber(0), VNumber(7), VBoolean(TRUE), VBoolean(FALSE),
     VObject(sA), VObject(sNull)}

Lists == UNION {[1..n -> Scalars] : n \in 0..MaxItems}

InitValue ==
    /\ groupedData = <<>>
    /\ config = [primaryGroup |-> Null, subGroup |-> Null]
    /\ collapsedGroups = {}
    /\ collapsedSubGroups = {}
    /\ dom = <<>>
    /\ loaded = FALSE
    /\ \E value \in Scalars \cup {VArray(items) : items \in Lists} :
          call = [fn |-> "valueToGroupString", value |-> value]
    /\ ret = NoRet

CallValueToGroupString ==
    /\ call.fn = "valueToGroupString"
    /\ ret = NoRet
    /\ ret' = [fn |-> "valueToGroupString", v |-> valueToGroupString(call.value)]
    /\ UNCHANGED <<groupedData, config, collapsedGroups, collapsedSubGroups,
                   dom, loaded, call>>

NextValue == CallValueToGroupString

SpecValue == InitValue /\ [][NextValue]_vars

CommaSpace == <<",", " ">>

\* C15: the group string of a list is "None" for the empty list and otherwise
\* the group strings of its elements joined by ", " (so ["a", "b"] gives
\* "a, b" and [true, null] gives "True, None").
C15_ListJoinedByCommaSpace ==
    (ret.fn = "valueToGroupString" /\ call.value.t = "array") =>
        ret.v = IF call.value.v = <<>> THEN None
                ELSE join([k \in 1..Len(call.value.v) |->
                             valueToGroupString(call.value.v[k])], CommaSpace)

-----------------------------------------------------------------------------
(* The wikilink functions on their own *)

Pieces == {<<"[", "[">>, <<"]", "]">>, <<"a">>, <<"|">>, <<"[">>}

RECURSIVE Concat(_)
Concat(seqs) == IF seqs = <<>> THEN <<>> ELSE Head(seqs) \o Concat(Tail(seqs))

Texts == {Concat(pieces) : pieces \in UNION {[1..n -> Pieces] : n \in 0..MaxPieces}}

InitLinks ==
    /\ groupedData = <<>>
    /\ config = [primaryGroup |-> Null, subGroup |-> Null]
    /\ collapsedGroups = {}
    /\ collapsedSubGroups = {}
    /\ dom = <<>>
    /\ loaded = FALSE
    /\ \E text \in Texts : call = [fn |-> "text", text |-> text]
    /\ ret = NoRet

CallStripWikilinks ==
    /\ call.fn = "text"
    /\ ret = NoRet
    /\ ret' = [fn |-> "stripWikilinks", v |-> stripWikilinks(call.text)]
    /\ UNCHANGED <<groupedData, config, collapsedGroups, collapsedSubGroups,
                   dom, loaded, call>>

CallRenderTextWithLinks ==
    /\ call.fn = "text"
    /\ ret = NoRet
    /\ ret' = [fn |-> "renderTextWithLinks", v |-> renderTextWithLinks(call.text)]
    /\ UNCHANGED <<groupedData, config, collapsedGroups, collapsedSubGroups,
                   dom, loaded, call>>

NextLinks == CallStripWikilinks \/ CallRenderTextWithLinks

SpecLinks == InitLinks /\ [][NextLinks]_vars

\* C16: stripping the result of stripWikilinks again changes nothing, for
\* every string, nested and malformed bracket sequences included.
C16_StripIdempotent ==
    ret.fn = "stripWikilinks" => stripWikilinks(ret.v) = ret.v

\* the input text a node stands for
Original(node) == IF node.cls = "text" THEN node.text ELSE node.match

Open == <<"[", "[">>
Close == <<"]", "]">>
Bar == <<"|">>

\* C17: the nodes renderTextWithLinks appends, each literal node taken
\* verbatim and each link node taken as the [[...]] span it stands for (its
\* link path, and its display text when that is an alias), concatenated in
\* order, are the input text.
C17_SegmentsReconstructInput ==
    ret.fn = "renderTextWithLinks" =>
        /\ Concat([k \in 1..Len(ret.v) |-> Original(ret.v[k])]) = call.text
        /\ \A k \in 1..Len(ret.v) :
              ret.v[k].cls = "enhanced-list-link" =>
                ret.v[k].match \in
                    {Open \o ret.v[k].linkPath \o Close,
                     Open \o ret.v[k].linkPath \o Bar \o ret.v[k].text \o Close}

C17_Witness ==
    /\ ret.fn = "renderTextWithLinks"
    /\ Len(ret.v) >= 3
    /\ ret.v[1].cls = "text"
    /\ ret.v[Len(ret.v)].cls = "text"
    /\ \E k \in 1..Len(ret.v) : ret.v[k].cls = "enhanced-list-link"
    /\ Concat([k \in 1..Len(ret.v) |-> Original(ret.v[k])]) = call.text

-----------------------------------------------------------------------------
(* truncateToLines on its own *)

\* count copies of the character c
Rep(c, count) == [k \in 1..count |-> c]

\* lines a text is made of: blank, short, half a preview line, a full one,
\* one character more, with a tag, padded with spaces, ending in a return
LineKinds ==
    {<<>>, <<Space, Space>>, <<"x">>, Rep("x", CharsPerLine \div 2),
     Rep("x", CharsPerLine), Rep("x", CharsPerLine + 1),
     <<"<", "b", ">", "y", "<", "/", "b", ">">>, <<Space, "z", Space>>,
     <<"w", Return>>}

TruncateTexts ==
    {join(lines, <<Newline>>) :
        lines \in UNION {[1..n -> LineKinds] : n \in 0..MaxLines}}

InitTruncate ==
    /\ groupedData = <<>>
    /\ config = [primaryGroup |-> Null, subGroup |-> Null]
    /\ collapsedGroups = {}
    /\ collapsedSubGroups = {}
    /\ dom = <<>>
    /\ loaded = FALSE
    /\ \E text \in TruncateTexts, lines \in 1..MaxLineCount :
          call = [fn |-> "truncateToLines", text |-> text, lines |-> lines]
    /\ ret = NoRet

CallTruncateToLines ==
    /\ call.fn = "truncateToLines"
    /\ ret = NoRet
    /\ ret' = [fn |-> "truncateToLines", v |-> truncateToLines(call.text, call.lines)]
    /\ UNCHANGED <<groupedData, config, collapsedGroups, collapsedSubGroups,
                   dom, loaded, call>>

NextTruncate == CallTruncateToLines

SpecTruncate == InitTruncate /\ [][NextTruncate]_vars

\* the non-blank lines of the tag-stripped, trimmed text of the call
NonBlankLines ==
    FilterNonBlank(SplitFrom(trim(StripTagsFrom(call.text, 1)), 1))

\* the first n of them, joined by single spaces
JoinedText == join(sliceTo(NonBlankLines, call.lines), <<Space>>)

IsPrefix(p, s) == Len(p) <= Len(s) /\ SubSeq(s, 1, Len(p)) = p

-----------------------------------------------------------------------------
(* formatRelativeDate on its own *)

\* Date.now(): whole seconds of the clock
NowSeconds == 100000000

Nows == {[s |-> NowSeconds, ms |-> 0], [s |-> NowSeconds, ms |-> 500]}

\* ages in whole days: around every bucket's edges
AgeDays ==
    {0, 1, 2, 6, 7, 8, 13, 14, 29, 30, 31, 59, 60, 364}
      \cup {365 * y + extra : y \in 1..MaxYears, extra \in {0, 1, 364}}

\* the time that lies days, hours, minutes, seconds and ms before now
Before(now, days, hours, minutes, seconds, ms) ==
    LET whole == ((days * 24 + hours) * 60 + minutes) * 60 + seconds
    IN IF ms <= now.ms THEN [s |-> now.s - whole, ms |-> now.ms - ms]
       ELSE [s |-> now.s - whole - 1, ms |-> now.ms - ms + 1000]

\* the time that lies seconds and ms after now
After(now, seconds, ms) ==
    IF now.ms + ms < 1000 THEN [s |-> now.s + seconds, ms |-> now.ms + ms]
    ELSE [s |-> now.s + seconds + 1, ms |-> now.ms + ms - 1000]

\* modification times up to MaxYears old, and slightly ahead of the clock
Timestamps(now) ==
    {Before(now, days, hours, minutes, seconds, ms) :
        days \in AgeDays, hours \in {0, 1, 23}, minutes \in {0, 1, 59},
        seconds \in {0, 59}, ms \in {0, 250, 750}}
      \cup {After(now, seconds, ms) :
               seconds \in {0, 1, 59}, ms \in {1, 250, 750}}

InitDate ==
    /\ groupedData = <<>>
    /\ config = [primaryGroup |-> Null, subGroup |-> Null]
    /\ collapsedGroups = {}
    /\ collapsedSubGroups = {}
    /\ dom = <<>>
    /\ loaded = FALSE
    /\ \E now \in Nows : \E timestamp \in Timestamps(now) :
          call = [fn |-> "formatRelativeDate", timestamp |-> timestamp, now |-> now]
    /\ ret = NoRet

CallFormatRelativeDate ==
    /\ call.fn = "formatRelativeDate"
    /\ ret = NoRet
    /\ ret' = [fn |-> "formatRelativeDate",
               v |-> formatRelativeDate(call.timestamp, call.now)]
    /\ UNCHANGED <<groupedData, config, collapsedGroups, collapsedSubGroups,
                   dom, loaded, call>>

NextDate == CallFormatRelativeDate

SpecDate == InitDate /\ [][NextDate]_vars

\* the timestamp of the call is not later than its now
NotLater ==
    \/ call.timestamp.s < call.now.s
    \/ call.timestamp.s = call.now.s /\ call.timestamp.ms <= call.now.ms

\* whole seconds elapsed, for a timestamp that is not later than now
ElapsedSeconds ==
    call.now.s - call.timestamp.s
      - (IF call.now.ms < call.timestamp.ms THEN 1 ELSE 0)

\* C20: for a timestamp not later than now, with m, h and d the whole minutes,
\* hours and days elapsed (each floored from the one before): "Just now" when
\* all are 0; "{m}m ago" when d = 0 and h = 0; "{h}h ago" when d = 0;
\* "Yesterday" when d = 1; "{d}d ago" for 2 <= d < 7; "{d div 7}w ago" for
\* 7 <= d < 30; "{d div 30}mo ago" for 30 <= d < 365; "{d div 365}y ago" from
\* d = 365 on.
C20_RelativeDateBuckets ==
    (ret.fn = "formatRelativeDate" /\ NotLater) =>
        LET m == ElapsedSeconds \div 60
            h == m \div 60
            d == h \div 24
        IN ret.v =
            CASE d = 0 /\ h = 0 /\ m = 0 -> sJustNow
              [] d = 0 /\ h = 0 /\ m # 0 -> NatToString(m) \o <<"m">> \o sAgo
              [] d = 0 /\ h # 0 -> NatToString(h) \o <<"h">> \o sAgo
              [] d = 1 -> sYesterday
              [] 2 <= d /\ d < 7 -> NatToString(d) \o <<"d">> \o sAgo
              [] 7 <= d /\ d < 30 -> NatToString(d \div 7) \o <<"w">> \o sAgo
              [] 30 <= d /\ d < 365 ->
                    NatToString(d \div 30) \o <<"m", "o">> \o sAgo
              [] d >= 365 -> NatToString(d \div 365) \o <<"y">> \o sAgo

C20_Witness ==
    /\ ret.fn = "formatRelativeDate"
    /\ NotLater
    /\ ElapsedSeconds \div 86400 = 7
    /\ call.now.ms < call.timestamp.ms
    /\ ret.v = <<"1", "w">> \o sAgo

-----------------------------------------------------------------------------
(* One render pass over ungrouped entries, with the options that fill an *)
(* entry's content                                                        *)

\* the slider of "Preview lines": min 0, max 5
PreviewLines == 0..5

sLong == Rep("x", CharsPerLine + 1)

\* entries whose accessor throws, returns null or returns a value, with and
\* without a default preview field in the frontmatter
ContentEntries ==
    {[path |-> 1, kind |-> 1,
      values |-> [propertyId \in PropertyIds |-> outcome],
      frontmatter |-> frontmatter,
      parentName |-> sD] :
        outcome \in {Throws, VNull, VObject(sA), VObject(sLinkA)},
        frontmatter \in {<<>>, (<<"s">> :> VString(sLinkB)),
                         (descFields[1] :> VString(sLong))}}

\* an entry every accessor call succeeds on
PlainEntry ==
    [path |-> 2, kind |-> 1,
     values |-> [propertyId \in PropertyIds |-> VObject(sB)],
     frontmatter |-> <<>>,
     parentName |-> sD]

RenderOptions ==
    [order : {<<>>, <<FileName>>, <<NoteS>>, <<FileName, NoteS, FormulaF>>},
     previewLines : PreviewLines,
     previewProperty : {Null, NoteS},
     showSubtitle : BOOLEAN,
     subtitleProperty : {FileFolder, NoteS}]

InitEntry ==
    /\ groupedData = <<>>
    /\ config = [primaryGroup |-> Null, subGroup |-> Null]
    /\ collapsedGroups = {}
    /\ collapsedSubGroups = {}
    /\ dom = <<>>
    /\ loaded = FALSE
    /\ \E entry \in ContentEntries, options \in RenderOptions :
          call = [fn |-> "render", entries |-> <<entry, PlainEntry>>,
                  options |-> options]
    /\ ret = NoRet

\* renderEntry on the first entry
CallRenderEntry ==
    /\ call.fn = "render"
    /\ ret = NoRet
    /\ ret' = [fn |-> "renderEntry",
               item |-> renderEntryContent(call.entries[1], call.options)]
    /\ UNCHANGED <<groupedData, config, collapsedGroups, collapsedSubGroups,
                   dom, loaded, call>>

\* onDataUpdated on the entries, ungrouped
CallOnDataUpdated ==
    /\ call.fn = "render"
    /\ ret = NoRet
    /\ ret' = [fn |-> "onDataUpdated"]
                 @@ RenderItems(<<>>, call.entries, call.options)
    /\ UNCHANGED <<groupedData, config, collapsedGroups, collapsedSubGroups,
                   dom, loaded, call>>

NextEntry == CallRenderEntry \/ CallOnDataUpdated

SpecEntry == InitEntry /\ [][NextEntry]_vars

\* C13: whatever the accessor does for the property ids of a render pass
\* (subtitle, preview, order list), throwing included, onDataUpdated runs to
\* its end and every entry is rendered.
C13_AccessorFailureNeverAborts ==
    ret.fn = "onDataUpdated" =>
        /\ ret.completed
        /\ Len(ret.items) = Len(call.entries)
        /\ \A k \in 1..Len(ret.items) : ~ret.items[k].threw

\* the first entry of the call has something a preview could be made from
HasPreviewSource ==
    \/ descFields[1] \in DOMAIN call.entries[1].frontmatter
    \/ /\ call.options.previewProperty # Null
       /\ getValue(call.entries[1], call.options.previewProperty).t = "object"

\* C19: rendering an entry calls getPreview and truncateToLines only with a
\* line count above 0: for every previewLines the slider allows, 0 included,
\* and whether the preview would come from the configured property, from a
\* default field or from nowhere, they are called only when previewLines > 0.
C19_NoPreviewCallsAtZero ==
    ret.fn = "renderEntry" =>
        /\ \A k \in 1..Len(ret.item.calls) : ret.item.calls[k].lines > 0
        /\ ret.item.calls # <<>> => call.options.previewLines > 0
        /\ call.options.previewLines <= 0 => ret.item.preview = Null

C19_Witness ==
    /\ ret.fn = "renderEntry"
    /\ call.options.previewLines = 0
    /\ HasPreviewSource
    /\ call.options.previewProperty # Null
    /\ ret.item.calls = <<>>
    /\ ret.item.preview = Null

\* the timestamp of the call lies exactly 25 hours before its now
TwentyFiveHours ==
    /\ call.now.s - call.timestamp.s = 25 * 3600
    /\ call.now.ms = call.timestamp.ms

sOneDayAgo == <<"1", "d">> \o sAgo

\* C21 as stated: a timestamp exactly 25 hours before now gives "1d ago".
C21_TwentyFiveHoursOneDayAgo ==
    (ret.fn = "formatRelativeDate" /\ TwentyFiveHours) => ret.v = sOneDayAgo

\* C21, amended: a timestamp exactly 25 hours before now has one whole day
\* elapsed and gives "Yesterday".
C21_TwentyFiveHoursYesterday ==
    (ret.fn = "formatRelativeDate" /\ TwentyFiveHours) => ret.v = sYesterday

C21_Witness ==
    /\ ret.fn = "formatRelativeDate"
    /\ TwentyFiveHours
    /\ ret.v = sYesterday

\* now minus the timestamp of the call is less than one minute: the timestamp
\* is later than now, or fewer than 60 whole seconds have elapsed
UnderAMinute == ~NotLater \/ ElapsedSeconds < 60

\* C22: whenever now minus the timestamp is less than one minute, a timestamp
\* slightly later than now included, the result is "Just now".
C22_JustNowUnderAMinute ==
    (ret.fn = "formatRelativeDate" /\ UnderAMinute) => ret.v = sJustNow

-----------------------------------------------------------------------------
(* getTags on its own *)

\* items of a frontmatter tags field
FrontmatterTagNames == {<<"a">>, <<"b">>, <<"#", "b">>}

\* tagCache.tag of inline tags
InlineTagNames == {<<"#", "a">>, <<"#", "b">>, <<"c">>}

\* cache.frontmatter.tags: absent, a string, a list of strings
TagFields ==
    {VUndefined, VString(<<>>)}
      \cup {VString(tag) : tag \in FrontmatterTagNames}
      \cup {VArray([k \in 1..n |-> VString(items[k])]) :
               n \in 0..MaxTags, items \in [1..MaxTags -> FrontmatterTagNames]}

\* cache.tags: the inline tags, if any
InlineTagLists == UNION {[1..n -> InlineTagNames] : n \in 0..MaxTags}

TagEntries ==
    {[path |-> 1, kind |-> 1,
      values |-> [propertyId \in PropertyIds |-> VNull],
      frontmatter |-> IF field = VUndefined THEN <<>> ELSE (sTags :> field),
      parentName |-> sD,
      tags |-> inline] :
        field \in TagFields, inline \in InlineTagLists}

InitTags ==
    /\ groupedData = <<>>
    /\ config = [primaryGroup |-> Null, subGroup |-> Null]
    /\ collapsedGroups = {}
    /\ collapsedSubGroups = {}
    /\ dom = <<>>
    /\ loaded = FALSE
    /\ \E entry \in TagEntries : call = [fn |-> "getTags", entry |-> entry]
    /\ ret = NoRet

CallGetTags ==
    /\ call.fn = "getTags"
    /\ ret = NoRet
    /\ ret' = [fn |-> "getTags", v |-> getTags(call.entry)]
    /\ UNCHANGED <<groupedData, config, collapsedGroups, collapsedSubGroups,
                   dom, loaded, call>>

NextTags == CallGetTags

SpecTags == InitTags /\ [][NextTags]_vars

\* the items of the frontmatter tags field of the call, in their order
FieldItems ==
    LET fm == call.entry.frontmatter
    IN IF sTags \notin DOMAIN fm THEN <<>>
       ELSE IF fm[sTags].t = "array"
         THEN [k \in 1..Len(fm[sTags].v) |-> fm[sTags].v[k].v]
       ELSE IF fm[sTags].v = <<>> THEN <<>>
       ELSE <<fm[sTags].v>>

\* C23: the list getTags returns holds no tag twice, whatever the frontmatter
\* tags field (string or list, repeated items included) and the inline tags
\* are; it begins with the frontmatter tags in their order, and every tag
\* after them is an inline tag not already present.
C23_TagsWithoutDuplicates ==
    ret.fn = "getTags" =>
        /\ \A i, j \in 1..Len(ret.v) : ret.v[i] = ret.v[j] => i = j
        /\ Len(ret.v) >= Len(FieldItems)
        /\ SubSeq(ret.v, 1, Len(FieldItems)) = FieldItems
        /\ \A i \in (Len(FieldItems) + 1)..Len(ret.v) :
              \E k \in 1..Len(call.entry.tags) :
                  call.entry.tags[k] \in {ret.v[i], <<"#">> \o ret.v[i]}

-----------------------------------------------------------------------------
(* Roles and sets of the rendered groups *)

\* element i stands for a keyed group of the host
IsHostEl(d, i) ==
    /\ d[i].parent = 0
    /\ \E k \in DOMAIN groupedData :
          /\ groupedData[k].hasKey
          /\ d[i].key = NativeKey(groupedData[k])
          /\ d[i].entries = groupedData[k].entries

\* element i is a group of the first plugin level: no host group itself, and
\* a child of containerEl or of a host group
IsPluginLevel1(d, i) ==
    /\ ~IsHostEl(d, i)
    /\ (d[i].parent = 0 \/ IsHostEl(d, d[i].parent))

\* element i is a group of the second plugin level
IsPluginLevel2(d, i) ==
    /\ d[i].parent # 0
    /\ IsPluginLevel1(d, d[i].parent)

\* 1 when some native group has an explicit key, 0 otherwise
ExpectedOffset ==
    IF \E k \in DOMAIN groupedData : groupedData[k].hasKey THEN 1 ELSE 0

\* C24: the role of a plugin group of level 1 is levels[levelOffset] and of
\* level 2 levels[levelOffset + 1], levelOffset being 1 exactly when some
\* native group has an explicit key; no role lies past tertiary; a group's
\* collapsed flag is read from the top-level set exactly when its role is
\* primary and from the nested set otherwise, and its header toggles in that
\* same set.
C24_RolesAndSets ==
    loaded =>
        \A i \in GroupIdx(dom) :
            /\ dom[i].level \in Range(Levels)
            /\ IsPluginLevel1(dom, i) => dom[i].level = Levels[ExpectedOffset + 1]
            /\ IsPluginLevel2(dom, i) => dom[i].level = Levels[ExpectedOffset + 2]
            /\ (dom[i].set = "collapsedGroups") <=> (dom[i].level = "primary")
            /\ (dom[i].set = "collapsedSubGroups") <=> (dom[i].level # "primary")
            /\ dom[i].isCollapsed <=> (dom[i].key \in CollapsedSet(This, dom[i].set))
            /\ dom[i].clickSet = dom[i].set
            /\ LET t == HeaderClick(This, dom[i])
               IN IF dom[i].level = "primary"
                  THEN t.collapsedSubGroups = collapsedSubGroups
                  ELSE t.collapsedGroups = collapsedGroups

C24_Witness ==
    /\ loaded
    /\ ExpectedOffset = 1
    /\ \E i, j, k \in GroupIdx(dom) :
          /\ IsHostEl(dom, i) /\ dom[i].level = "primary"
          /\ IsPluginLevel1(dom, j) /\ dom[j].level = "secondary"
          /\ dom[j].parent = i
          /\ IsPluginLevel2(dom, k) /\ dom[k].level = "tertiary"
          /\ dom[k].isCollapsed
          /\ dom[k].key \in collapsedSubGroups

\* the text of the key of the native group that holds the entries, empty for
\* the group without key
NativeTextOf(entries) ==
    LET k == CHOOSE k \in DOMAIN groupedData :
                Range(entries) \subseteq Range(groupedData[k].entries)
    IN IF groupedData[k].hasKey THEN JSString(groupedData[k].key) ELSE <<>>

\* the group key of the entries' first entry for the property
KeyOf(entries, propertyId) ==
    getPropertyValueAsString(Entry(entries[1]), propertyId)

\* C25: the collapse key of a plugin group under a native group with
\* non-empty key N is N + "::" + k1 at level 1 and N + "::" + k1 + "::" + k2 at
\* level 2; under the native group without key it is k1 at level 1 and
\* k1 + ":" + k2 at level 2.
C25_CompositeKeys ==
    (loaded /\ PluginSelected) =>
        \A i \in GroupIdx(dom) :
            LET N == NativeTextOf(dom[i].entries)
                k1 == KeyOf(dom[i].entries, Plugin1Property)
                k2 == KeyOf(dom[i].entries, config.subGroup)
            IN /\ IsPluginLevel1(dom, i) =>
                    dom[i].key = IF N # <<>> THEN N \o <<":", ":">> \o k1 ELSE k1
               /\ IsPluginLevel2(dom, i) =>
                    dom[i].key = IF N # <<>>
                                 THEN N \o <<":", ":">> \o k1 \o <<":", ":">> \o k2
                                 ELSE k1 \o <<":">> \o k2

C25_Witness ==
    /\ loaded
    /\ BothSelected
    /\ \E i, j \in GroupIdx(dom) :
          /\ IsPluginLevel2(dom, i) /\ NativeTextOf(dom[i].entries) # <<>>
          /\ IsPluginLevel2(dom, j) /\ NativeTextOf(dom[j].entries) = <<>>
          /\ dom[j].key = KeyOf(dom[j].entries, config.primaryGroup) \o <<":">>
                            \o KeyOf(dom[j].entries, config.subGroup)

-----------------------------------------------------------------------------
(* The key a header's listener toggles against the key the render looks up *)

\* C26: for every rendered group header (native, plugin level 1, plugin level
\* 2) the key and the set its click listener adds to or removes from are the
\* key and the set the render looks the group up under, so that one click on
\* an expanded header makes the next render show that group collapsed.
C26_HandlerKeyIsLookupKey ==
    loaded =>
        \A i \in GroupIdx(dom) :
            /\ dom[i].clickKey = dom[i].key
            /\ dom[i].clickSet = dom[i].set
            /\ ~dom[i].isCollapsed =>
                  LET d1 == AfterClick(This, dom, i)
                  IN /\ SameNode(dom, i, d1) # {}
                     /\ \A j \in SameNode(dom, i, d1) : d1[j].isCollapsed

-----------------------------------------------------------------------------
(* Group keys are never empty *)

\* the header of a plugin group with the resolved key, outside native groups
HeaderOf(groupKey) ==
    renderGroupHeader(
        GroupEl(0, "primary", CollapseKey(<<>>, groupKey), "collapsedGroups", <<1>>),
        groupKey, 1, FALSE, "primary", CollapseKey(<<>>, groupKey))

\* no step of the resolution has a value: the accessor yields none and the
\* raw metadata has no field for the property
NothingResolves ==
    /\ NoValue
    /\ ~(/\ startsWith(call.propertyId, NotePrefix)
         /\ slice(call.propertyId, 5) \in DOMAIN call.entry.frontmatter)

\* C27: every group key that group-key resolution returns is a non-empty
\* string, so the header of a plugin group with that key has a non-empty
\* title, a non-empty lookup key and a non-empty listener key; where nothing
\* resolves the key is "None", or for file.folder the parent folder's name,
\* "Root" when that is missing, and a null or empty raw metadata value
\* resolves to "None".
C27_GroupKeyNeverEmpty ==
    ret.groupKey # NotRun =>
        /\ ret.groupKey # <<>>
        /\ HeaderOf(ret.groupKey).title # <<>>
        /\ HeaderOf(ret.groupKey).key # <<>>
        /\ HeaderOf(ret.groupKey).clickKey # <<>>
        /\ NothingResolves =>
              \/ ret.groupKey = None
              \/ /\ call.propertyId = FileFolder
                 /\ getValue(call.entry, call.propertyId).t # "object"
                 /\ ret.groupKey = (IF call.entry.parentName \in {Null, <<>>}
                                    THEN Root ELSE call.entry.parentName)
        /\ (/\ getValue(call.entry, call.propertyId).t \in {"throws", "null"}
            /\ startsWith(call.propertyId, NotePrefix)
            /\ slice(call.propertyId, 5) \in DOMAIN call.entry.frontmatter
            /\ call.entry.frontmatter[slice(call.propertyId, 5)]
                  \in {VNull, VString(<<>>), VArray(<<>>)}) =>
              ret.groupKey = None

\* an empty raw metadata string was resolved after the accessor threw
C27_Witness ==
    /\ ret.groupKey = None
    /\ getValue(call.entry, call.propertyId) = Throws
    /\ call.propertyId = NoteS
    /\ call.entry.frontmatter = (<<"s">> :> VString(<<>>))

-----------------------------------------------------------------------------
(* The view of src/main.ts: plugin grouping over the flattened entries, and *)
(* the collapsibleGroups option.  Operators carry the prefix main_ where    *)
(* the name is already taken by the other revision.                         *)

\* DEFAULT_SETTINGS.collapsibleGroups
DefaultCollapsibleGroups == TRUE

\* typeof value === "boolean" ? value : defaultValue
getConfigBoolean(value, defaultValue) ==
    IF value.t = "boolean" THEN value.v ELSE defaultValue

\* valueToGroupString of src/main.ts: no wikilink stripping
main_valueToGroupString(value) ==
    IF value.t \in {"null", "undefined"} THEN None
    ELSE IF value.t \in {"object", "array"}
         THEN LET str == JSString(value)
              IN IF str = <<>> \/ str = sNull \/ str = sUndefined THEN None
                 ELSE str
    ELSE IF value.t = "string"
         THEN (IF value.v = <<>> THEN None ELSE value.v)
    ELSE IF value.t = "number" THEN JSString(value)
    ELSE IF value.t = "boolean" THEN (IF value.v THEN sTrue ELSE sFalse)
    ELSE JSString(value)

main_getPropertyValueAsString(entry, propertyId) ==
    LET value == getValue(entry, propertyId)
        propName == slice(propertyId, 5)
    IN IF value.t # "throws" /\ Truthy(value)
         THEN main_valueToGroupString(value)
       ELSE IF /\ startsWith(propertyId, NotePrefix)
               /\ propName \in DOMAIN entry.frontmatter
         THEN main_valueToGroupString(entry.frontmatter[propName])
       ELSE IF propertyId = FileFolder
         THEN (IF entry.parentName \in {Null, <<>>} THEN Root
               ELSE entry.parentName)
       ELSE None

RECURSIVE main_GroupLoop(_, _, _)
main_GroupLoop(groups, entries, propertyId) ==
    IF entries = <<>> THEN groups
    ELSE main_GroupLoop(
            GroupPut(groups,
                     main_getPropertyValueAsString(Entry(Head(entries)), propertyId),
                     Head(entries)),
            Tail(entries), propertyId)

main_groupEntriesByProperty(entries, propertyId) ==
    main_GroupLoop(<<>>, entries, propertyId)

\* The header of groupEl; the listener exists only with the option on.
main_renderGroupHeader(groupEl, title, count, isCollapsed, options, level, compoundKey) ==
    [groupEl EXCEPT
        !.title = title,
        !.count = count,
        !.isCollapsed = isCollapsed,
        !.clickKey = IF ~options.collapsibleGroups THEN <<>>
                     ELSE IF compoundKey = Null \/ compoundKey = <<>> THEN title
                     ELSE compoundKey,
        !.clickSet = IF ~options.collapsibleGroups THEN ""
                     ELSE IF level = "secondary" THEN "collapsedSubGroups"
                     ELSE "collapsedGroups"]

main_renderCustomGroup(this, elems, groupKey, entries, options) ==
    LET isCollapsed == groupKey \in this.collapsedGroups
        groupEl == main_renderGroupHeader(
                      GroupEl(0, "primary", groupKey, "collapsedGroups", entries),
                      groupKey, Len(entries), isCollapsed, options, "primary", Null)
        self == Len(elems) + 1
    IN IF isCollapsed THEN Append(elems, groupEl)
       ELSE renderEntries(Append(elems, groupEl), self, entries)

\* for (const [subGroupKey, subEntries] of subGroups)
RECURSIVE main_renderSubGroups(_, _, _, _, _, _)
main_renderSubGroups(this, elems, groupIdx, groupKey, subGroups, options) ==
    IF subGroups = <<>> THEN elems
    ELSE LET subGroupKey == Head(subGroups).key
             subEntries == Head(subGroups).entries
             compoundKey == groupKey \o Colon \o subGroupKey
             isSubCollapsed == compoundKey \in this.collapsedSubGroups
             subGroupEl == main_renderGroupHeader(
                              GroupEl(groupIdx, "secondary", compoundKey,
                                      "collapsedSubGroups", subEntries),
                              subGroupKey, Len(subEntries), isSubCollapsed,
                              options, "secondary", compoundKey)
             self == Len(elems) + 1
             next == IF isSubCollapsed THEN Append(elems, subGroupEl)
                     ELSE renderEntries(Append(elems, subGroupEl), self, subEntries)
         IN main_renderSubGroups(this, next, groupIdx, groupKey,
                                 Tail(subGroups), options)

main_renderGroupWithSubGroups(this, elems, groupKey, entries, subGroupProperty, options) ==
    LET isCollapsed == groupKey \in this.collapsedGroups
        groupEl == main_renderGroupHeader(
                      GroupEl(0, "primary", groupKey, "collapsedGroups", entries),
                      groupKey, Len(entries), isCollapsed, options, "primary", Null)
        self == Len(elems) + 1
    IN IF isCollapsed THEN Append(elems, groupEl)
       ELSE main_renderSubGroups(this, Append(elems, groupEl), self, groupKey,
               main_groupEntriesByProperty(entries, subGroupProperty), options)

\* renderGroup: a native group; without key its element has no header
main_renderGroup(this, elems, group, options) ==
    LET groupKey == IF group.hasKey
                    THEN (IF group.key.t \in {"null", "undefined"} THEN sUngrouped
                          ELSE JSString(group.key))
                    ELSE sUngrouped
        isCollapsed == groupKey \in this.collapsedGroups
        bare == GroupEl(0, "primary", groupKey, "collapsedGroups", group.entries)
        groupEl == IF group.hasKey
                   THEN main_renderGroupHeader(bare, NativeTitle(group),
                           Len(group.entries), isCollapsed, options, "primary", Null)
                   ELSE [bare EXCEPT !.cls = "headless"]
        self == Len(elems) + 1
    IN IF isCollapsed /\ group.hasKey THEN Append(elems, groupEl)
       ELSE renderEntries(Append(elems, groupEl), self, group.entries)

\* for (const [groupKey, entries] of groupedEntries), both branches
RECURSIVE main_renderPluginGroups(_, _, _, _, _)
main_renderPluginGroups(this, elems, groups, subGroupByProperty, options) ==
    IF groups = <<>> THEN elems
    ELSE main_renderPluginGroups(this,
            IF subGroupByProperty # Null
            THEN main_renderGroupWithSubGroups(this, elems, Head(groups).key,
                    Head(groups).entries, subGroupByProperty, options)
            ELSE main_renderCustomGroup(this, elems, Head(groups).key,
                    Head(groups).entries, options),
            Tail(groups), subGroupByProperty, options)

\* for (const group of this.data.groupedData) this.renderGroup(group, ...)
RECURSIVE main_renderGroups(_, _, _, _)
main_renderGroups(this, elems, groups, options) ==
    IF groups = <<>> THEN elems
    ELSE main_renderGroups(this,
            main_renderGroup(this, elems, Head(groups), options),
            Tail(groups), options)

\* allEntries.push(...group.entries) over groupedData
RECURSIVE main_allEntries(_)
main_allEntries(groups) ==
    IF groups = <<>> THEN <<>>
    ELSE Head(groups).entries \o main_allEntries(Tail(groups))

\* The children of containerEl after onDataUpdated of src/main.ts
main_onDataUpdated(this) ==
    LET collapsibleGroups == getConfigBoolean(this.config.collapsibleGroups,
                                              DefaultCollapsibleGroups)
        groupByProperty == this.config.primaryGroup
        subGroupByProperty == this.config.subGroup
        allEntries == main_allEntries(this.groupedData)
        renderOptions == [collapsibleGroups |-> collapsibleGroups]
        elems ==
            IF groupByProperty # Null
            THEN main_renderPluginGroups(this, <<>>,
                    main_groupEntriesByProperty(allEntries, groupByProperty),
                    subGroupByProperty, renderOptions)
            ELSE IF subGroupByProperty # Null
            THEN main_renderPluginGroups(this, <<>>,
                    main_groupEntriesByProperty(allEntries, subGroupByProperty),
                    Null, renderOptions)
            ELSE main_renderGroups(this, <<>>, this.groupedData, renderOptions)
    IN IF allEntries = <<>> THEN Append(elems, EmptyEl) ELSE elems

\* the option values the host hands to this revision: the two plugin
\* groupings, and collapsibleGroups unset, true or false
main_Configs ==
    [primaryGroup : {Null, FormulaF}, subGroup : {Null, NoteT},
     collapsibleGroups : {VUndefined, VBoolean(TRUE), VBoolean(FALSE)}]

main_Init ==
    /\ groupedData = <<>>
    /\ config = [primaryGroup |-> Null, subGroup |-> Null,
                 collapsibleGroups |-> VUndefined]
    /\ collapsedGroups = {}
    /\ collapsedSubGroups = {}
    /\ dom = <<>>
    /\ loaded = TRUE
    /\ call = NoCall
    /\ ret = NoRet

\* the host has new data and calls onDataUpdated
main_DataChanged(d) ==
    /\ loaded
    /\ groupedData' = d
    /\ dom' = main_onDataUpdated([This EXCEPT !.groupedData = d])
    /\ UNCHANGED <<config, collapsedGroups, collapsedSubGroups, loaded, call, ret>>

\* the user changes a view option and the host calls onDataUpdated
main_ConfigChanged(c) ==
    /\ loaded
    /\ config' = c
    /\ dom' = main_onDataUpdated([This EXCEPT !.config = c])
    /\ UNCHANGED <<groupedData, collapsedGroups, collapsedSubGroups, loaded, call, ret>>

\* the user clicks the header of dom[i], which has a listener
main_ClickHeader(i) ==
    /\ loaded
    /\ dom[i].cls = "group"
    /\ dom[i].clickSet # ""
    /\ dom[i].isCollapsed
       \/ Cardinality(collapsedGroups) + Cardinality(collapsedSubGroups) < MaxCollapsed
    /\ LET this == HeaderClick(This, dom[i])
       IN /\ collapsedGroups' = this.collapsedGroups
          /\ collapsedSubGroups' = this.collapsedSubGroups
          /\ dom' = main_onDataUpdated(this)
    /\ UNCHANGED <<groupedData, config, loaded, call, ret>>

main_Next ==
    \/ \E d \in DataSets : main_DataChanged(d)
    \/ \E c \in main_Configs : main_ConfigChanged(c)
    \/ \E i \in DOMAIN dom : main_ClickHeader(i)
    \/ OnUnload

SpecMain == main_Init /\ [][main_Next]_vars

\* the entries shown as items anywhere in the tree d
Shown(d) == {d[i].entry : i \in ItemIdx(d)}

\* C28: in src/main.ts, whenever the view has been rendered with the
\* collapsibleGroups option false, no group is shown collapsed and every
\* entry of the data is rendered, whatever headers were clicked and whatever
\* options were changed before.
C28_NotCollapsibleShowsAll ==
    (loaded /\ ~getConfigBoolean(config.collapsibleGroups, DefaultCollapsibleGroups)) =>
        /\ \A i \in GroupIdx(dom) : ~dom[i].isCollapsed
        /\ Shown(dom) = AllEntries

\* the keyed groups of the host's data
KeyedNative == {k \in DOMAIN groupedData : groupedData[k].hasKey}

\* C29: in src/main.ts, with a plugin grouping selected and several keyed
\* native groups, every keyed native group has its own element at the top of
\* the tree and every other group element holds entries of one native group
\* only.
C29_NativeStaysOutermost ==
    (loaded /\ PluginSelected /\ Cardinality(KeyedNative) >= 2) =>
        /\ \A k \in KeyedNative :
              \E i \in GroupIdx(dom) :
                 /\ dom[i].parent = 0
                 /\ dom[i].entries = groupedData[k].entries
                 /\ dom[i].title = NativeTitle(groupedData[k])
        /\ \A i \in GroupIdx(dom) :
              \E k \in DOMAIN groupedData :
                 Range(dom[i].entries) \subseteq Range(groupedData[k].entries)

-----------------------------------------------------------------------------
(* Unloading the view *)

\* C30: after onUnload both collapse sets are empty, the top-level one and
\* the nested one.
C30_UnloadClearsBoth ==
    ~loaded => (collapsedGroups = {} /\ collapsedSubGroups = {})

====
